---- MODULE Spec2Model ----
(***************************************************************************)
(* Local Food Wastage Management System: the relational store, the CSV     *)
(* ingestion pipeline (DataLoader) and its integrity pass.                 *)
(*                                                                         *)
(* A source file is a sequence of records whose cells are CSV text; the    *)
(* loaders coerce the cells (int(), str()) and hand the batch to SQLite.   *)
(* A table is a bag of typed rows: the engine, not the representation,     *)
(* keeps primary keys unique.                                              *)
(***************************************************************************)
EXTENDS Integers, Sequences, FiniteSets, Bags, TLC

\* ------------------------------------------------------------------ bounds
\* Largest number of records in a source file.
MaxRecs == 2

\* ------------------------------------------------------------ the schema
Tables == {"providers", "receivers", "food_listings", "claims"}

\* required_files, in the order load_all_data loads them.
LoadOrder == <<"providers", "receivers", "food_listings", "claims">>

PkColumn(t) ==
    CASE t = "providers"     -> "provider_id"
      [] t = "receivers"     -> "receiver_id"
      [] t = "food_listings" -> "food_id"
      [] t = "claims"        -> "claim_id"

FoodTypes == {"Vegetarian", "Non-Vegetarian", "Vegan"}
MealTypes == {"Breakfast", "Lunch", "Dinner", "Snacks"}
Statuses  == {"Pending", "Completed", "Cancelled"}

\* The CHECK constraints without CHECK (quantity > 0).
CheckOkWeak(t, row) ==
    CASE t = "food_listings" -> /\ row.food_type \in FoodTypes
                                /\ row.meal_type \in MealTypes
      [] t = "claims"        -> row.status \in Statuses
      [] OTHER               -> TRUE

\* CHECK constraints of the CREATE TABLE statements.
CheckOk(t, row) ==
    CASE t = "food_listings" -> /\ row.quantity > 0
                                /\ row.food_type \in FoodTypes
                                /\ row.meal_type \in MealTypes
      [] t = "claims"        -> row.status \in Statuses
      [] OTHER               -> TRUE

\* A key column declared without PRIMARY KEY.
PkFreeNone(t, tbl, row) == TRUE

\* INTEGER PRIMARY KEY: a row is accepted only if no row of the table has
\* its key.

PkFree(t, tbl, row) ==
    \A r \in BagToSet(tbl) : r[PkColumn(t)] # row[PkColumn(t)]

\* ------------------------------------------------------- the CSV sources
\* Cells are text; the empty cell is what pandas reads as NaN.
IntCells == {"0", "1", "2", "5"}

\* int(cell); raises ValueError on NaN.
IntOf(cell) ==
    CASE cell = "0" -> 0
      [] cell = "1" -> 1
      [] cell = "2" -> 2
      [] cell = "5" -> 5

\* str(cell): NaN prints as 'nan'.
StrOf(cell) == IF cell = "" THEN "nan" ELSE cell

\* str(cell) if pd.notna(cell) else ''
ContactOf(cell) == IF cell = "" THEN "" ELSE StrOf(cell)

Provider(id, contact) ==
    [provider_id |-> id, name |-> "n", type |-> "Restaurant", address |-> "a",
     city |-> "Metro", contact |-> contact]

ProviderRecs == {Provider("1", "x"), Provider("2", ""), Provider("", "x")}

Receiver(id) ==
    [receiver_id |-> id, name |-> "m", type |-> "NGO", city |-> "Metro",
     contact |-> "y"]

ReceiverRecs == {Receiver("1"), Receiver("")}

Food(id, quantity, provider, food_type, meal_type) ==
    [food_id |-> id, food_name |-> "Bread", quantity |-> quantity,
     expiry_date |-> "2030-01-01", provider_id |-> provider,
     provider_type |-> "Restaurant", location |-> "Metro",
     food_type |-> food_type, meal_type |-> meal_type]

FoodRecs ==
    {Food("1", "5", "1", "Vegan", "Lunch"), Food("2", "2", "2", "Vegetarian", "Dinner"),
     Food("2", "0", "2", "Vegan", "Lunch"), Food("2", "5", "2", "Fruit", "Lunch"),
     Food("2", "5", "2", "Vegan", "Brunch")}

Claim(id, food, receiver, status) ==
    [claim_id |-> id, food_id |-> food, receiver_id |-> receiver,
     status |-> status, timestamp |-> "2025-01-01 10:00:00"]

ClaimRecs ==
    {Claim("1", "1", "1", "Completed"), Claim("2", "2", "2", "Pending"),
     Claim("2", "2", "2", "Done"), Claim("2", "2", "", "Pending")}

SeqsUpTo(S, n) == UNION { [1..k -> S] : k \in 0..n }

\* What load_csv_to_dataframe can find under a file name.
SourcesOf(S) ==
    {[kind |-> "missing", rows |-> <<>>], [kind |-> "unparsable", rows |-> <<>>]}
    \cup { [kind |-> "rows", rows |-> s] : s \in SeqsUpTo(S, MaxRecs) }

ProviderSources == SourcesOf(ProviderRecs)
ReceiverSources == SourcesOf(ReceiverRecs)
FoodSources     == SourcesOf(FoodRecs)
ClaimSources    == SourcesOf(ClaimRecs)

Sources(t) ==
    CASE t = "providers"     -> ProviderSources
      [] t = "receivers"     -> ReceiverSources
      [] t = "food_listings" -> FoodSources
      [] t = "claims"        -> ClaimSources

\* -------------------------------------------------- coercion in the loaders
IntColumns(t) ==
    CASE t = "providers"     -> {"provider_id"}
      [] t = "receivers"     -> {"receiver_id"}
      [] t = "food_listings" -> {"food_id", "quantity", "provider_id"}
      [] t = "claims"        -> {"claim_id", "food_id", "receiver_id"}

\* int(row[c]) succeeds for every integer column of the record.
CoerceOk(t, rec) == \A c \in IntColumns(t) : rec[c] \in IntCells

\* The tuple a loader appends to data_tuples for one record.
Coerce(t, rec) ==
    CASE t = "providers" ->
           [provider_id |-> IntOf(rec.provider_id), name |-> StrOf(rec.name),
            type |-> StrOf(rec.type), address |-> StrOf(rec.address),
            city |-> StrOf(rec.city), contact |-> ContactOf(rec.contact)]
      [] t = "receivers" ->
           [receiver_id |-> IntOf(rec.receiver_id), name |-> StrOf(rec.name),
            type |-> StrOf(rec.type), city |-> StrOf(rec.city),
            contact |-> ContactOf(rec.contact)]
      [] t = "food_listings" ->
           [food_id |-> IntOf(rec.food_id), food_name |-> StrOf(rec.food_name),
            quantity |-> IntOf(rec.quantity),
            expiry_date |-> StrOf(rec.expiry_date),
            provider_id |-> IntOf(rec.provider_id),
            provider_type |-> StrOf(rec.provider_type),
            location |-> StrOf(rec.location),
            food_type |-> StrOf(rec.food_type),
            meal_type |-> StrOf(rec.meal_type)]
      [] t = "claims" ->
           [claim_id |-> IntOf(rec.claim_id), food_id |-> IntOf(rec.food_id),
            receiver_id |-> IntOf(rec.receiver_id),
            status |-> StrOf(rec.status), timestamp |-> StrOf(rec.timestamp)]

\* ----------------------------------------------------- DatabaseManager
\* cursor.executemany inside the connection's open transaction: the rows
\* go in one by one until the engine rejects one (IntegrityError).
RECURSIVE executemany(_, _, _)
executemany(t, tbl, data) ==
    IF data = <<>> THEN [ok |-> TRUE, tbl |-> tbl]
    ELSE LET row == Head(data)
         IN  IF CheckOk(t, row) /\ PkFree(t, tbl, row)
             THEN executemany(t, tbl (+) SetToBag({row}), Tail(data))
             ELSE [ok |-> FALSE, tbl |-> tbl]

\* execute_many committing what the batch inserted before it failed.
execute_many_no_rollback(db, t, data, up) ==
    IF ~up THEN [ret |-> FALSE, db |-> db]
    ELSE LET r == executemany(t, db[t], data)
         IN  [ret |-> r.ok, db |-> [db EXCEPT ![t] = r.tbl]]

\* execute_many: commit on success; on sqlite3.Error the connection is
\* closed without a commit, which rolls the batch back.
execute_many(db, t, data, up) ==
    IF ~up THEN [ret |-> FALSE, db |-> db]
    ELSE LET r == executemany(t, db[t], data)
         IN  IF r.ok THEN [ret |-> TRUE, db |-> [db EXCEPT ![t] = r.tbl]]
             ELSE [ret |-> FALSE, db |-> db]

\* A DELETE that is never committed.
execute_query_delete_noop(db, t, up) == [ok |-> up, db |-> db]

\* execute_query("DELETE FROM <t>"): ok is FALSE where the code returns None.
execute_query_delete(db, t, up) ==
    IF ~up THEN [ok |-> FALSE, db |-> db]
    ELSE [ok |-> TRUE, db |-> [db EXCEPT ![t] = EmptyBag]]

\* get_row_count: SELECT COUNT(*); 0 when the query returned None.
get_row_count(db, t, up) == IF up THEN BagCardinality(db[t]) ELSE 0

\* A fetch that runs its statement on a connection that clears the claims
\* table.
fetch_dataframe_clearing(db, rows, up) ==
    IF ~up THEN [ok |-> FALSE, df |-> {}, db |-> db]
    ELSE [ok |-> TRUE, df |-> rows, db |-> [db EXCEPT !["claims"] = EmptyBag]]

\* fetch_dataframe: a SELECT; ok is FALSE where the code returns None.
\* rows is what the SELECT evaluates to on db.
fetch_dataframe(db, rows, up) ==
    IF ~up THEN [ok |-> FALSE, df |-> {}, db |-> db]
    ELSE [ok |-> TRUE, df |-> rows, db |-> db]

\* ------------------------------------------------------------ DataLoader
\* load_csv_to_dataframe: None for an absent or unreadable file.
load_csv_to_dataframe(src) ==
    IF src.kind = "rows" THEN [ok |-> TRUE, df |-> src.rows]
    ELSE [ok |-> FALSE, df |-> <<>>]

\* The store answers the loader's DELETE and its batched INSERT.
StoreUp == [delete |-> TRUE, insert |-> TRUE]

RECURSIVE BagOfSeq(_)
BagOfSeq(rows) ==
    IF rows = <<>> THEN EmptyBag
    ELSE SetToBag({Head(rows)}) (+) BagOfSeq(Tail(rows))

\* A loader that appends: no DELETE, and the rows are added to the table
\* as they come.
load_table_append(db, t, src, net) ==
    LET f == load_csv_to_dataframe(src)
    IN  IF ~f.ok \/ \E i \in 1..Len(f.df) : ~CoerceOk(t, f.df[i])
        THEN [ret |-> FALSE, db |-> db]
        ELSE [ret |-> TRUE,
              db |-> [db EXCEPT ![t] =
                        @ (+) BagOfSeq([i \in 1..Len(f.df) |-> Coerce(t, f.df[i])])]]

\* A loader that clears its table before it looks for its file.
load_table_delete_first(db, t, src, net) ==
    LET d == execute_query_delete(db, t, net.delete)
        f == load_csv_to_dataframe(src)
    IN  IF ~f.ok \/ \E i \in 1..Len(f.df) : ~CoerceOk(t, f.df[i])
        THEN [ret |-> FALSE, db |-> d.db]
        ELSE execute_many(d.db, t,
                          [i \in 1..Len(f.df) |-> Coerce(t, f.df[i])],
                          net.insert)

\* load_providers / load_receivers / load_food_listings / load_claims: the
\* four loaders differ only in the table and its columns.
load_table(db, t, src, net) ==
    LET f == load_csv_to_dataframe(src)
    IN  IF ~f.ok THEN [ret |-> FALSE, db |-> db]
        ELSE
          LET d == execute_query_delete(db, t, net.delete)
          IN  IF \E i \in 1..Len(f.df) : ~CoerceOk(t, f.df[i])
              THEN \* int() raised ValueError: except Exception
                   [ret |-> FALSE, db |-> d.db]
              ELSE
                LET data == [i \in 1..Len(f.df) |-> Coerce(t, f.df[i])]
                IN  execute_many(d.db, t, data, net.insert)

\* Rows of bag B satisfying P, with their multiplicities.
BagFilter(B, P(_)) == [r \in {x \in BagToSet(B) : P(x)} |-> CopiesIn(r, B)]

\* SELECT COUNT(*) FROM l LEFT JOIN r ON l.lcol = r.rcol WHERE r.rcol IS NULL
OrphanCount(left, lcol, right, rcol) ==
    LET Orphan(x) == \A y \in BagToSet(right) : y[rcol] # x[lcol]
    IN  BagCardinality(BagFilter(left, Orphan))

\* SELECT pk, COUNT(*) FROM t GROUP BY pk HAVING COUNT(*) > 1
DuplicateKeys(tbl, pk) ==
    { k \in { r[pk] : r \in BagToSet(tbl) } :
        LET HasKey(x) == x[pk] = k
        IN  BagCardinality(BagFilter(tbl, HasKey)) > 1 }

Check1(db) == OrphanCount(db["food_listings"], "provider_id",
                          db["providers"], "provider_id")
Check2(db) == OrphanCount(db["claims"], "food_id",
                          db["food_listings"], "food_id")
\* Check 3 written as a copy of check 2.
Check3_food_id(db) == Check2(db)

Check3(db) == OrphanCount(db["claims"], "receiver_id",
                          db["receivers"], "receiver_id")
Check4(db, t) == DuplicateKeys(db[t], PkColumn(t))

\* An integrity pass that enforces: it deletes the claims that do not
\* resolve.
verify_data_integrity_repair(db, up) ==
    LET Resolves(c) ==
          /\ \E f \in BagToSet(db["food_listings"]) : f.food_id = c.food_id
          /\ \E r \in BagToSet(db["receivers"]) : r.receiver_id = c.receiver_id
        ok == Check1(db) = 0 /\ Check2(db) = 0 /\ Check3(db) = 0
    IN  [ret |-> ok, raised |-> FALSE,
         db |-> [db EXCEPT !["claims"] = BagFilter(@, Resolves)]]

\* verify_data_integrity: seven SELECTs, seven verdicts, all(...) of them;
\* up[i] tells whether the store answers the i-th SELECT.  Checks 1 to 3
\* print check.iloc[0]['count'] in their else branch, which is also the
\* branch of a None result: raised marks that exception, which nothing in
\* the function catches.  Check 4 prints no cell of its result.
verify_data_integrity(db, up) ==
    LET c1 == fetch_dataframe(db, {Check1(db)}, up[1])
        c2 == fetch_dataframe(c1.db, {Check2(c1.db)}, up[2])
        c3 == fetch_dataframe(c2.db, {Check3(c2.db)}, up[3])
        d1 == fetch_dataframe(c3.db, Check4(c3.db, LoadOrder[1]), up[4])
        d2 == fetch_dataframe(d1.db, Check4(d1.db, LoadOrder[2]), up[5])
        d3 == fetch_dataframe(d2.db, Check4(d2.db, LoadOrder[3]), up[6])
        d4 == fetch_dataframe(d3.db, Check4(d3.db, LoadOrder[4]), up[7])
        integrity_checks ==
          << c1.ok /\ c1.df = {0}, c2.ok /\ c2.df = {0}, c3.ok /\ c3.df = {0},
             d1.ok /\ d1.df = {}, d2.ok /\ d2.df = {},
             d3.ok /\ d3.df = {}, d4.ok /\ d4.df = {} >>
    IN  IF ~c1.ok THEN [ret |-> FALSE, raised |-> TRUE, db |-> c1.db]
        ELSE IF ~c2.ok THEN [ret |-> FALSE, raised |-> TRUE, db |-> c2.db]
        ELSE IF ~c3.ok THEN [ret |-> FALSE, raised |-> TRUE, db |-> c3.db]
        ELSE [ret |-> \A i \in 1..7 : integrity_checks[i],
              raised |-> FALSE, db |-> d4.db]

\* The store answers each of the seven SELECTs of the integrity pass.
AllUp == [i \in 1..7 |-> TRUE]

\* load_all_data without its "if missing_files: return False".
precheck_ignored(missing_files) == TRUE

\* load_all_data's check of required_files: the run goes on only if no
\* file is missing.

precheck(missing_files) == missing_files = {}

\* A load_all_data content with one table loaded.
all_loaded_some(success_count) == success_count > 0

\* load_all_data's "if success_count == 4"
all_loaded(success_count) == success_count = Len(LoadOrder)

\* load_all_data with the food listings and claims loaded before the
\* receivers.
next_pc_swapped(i) ==
    CASE i = 1 -> "food_listings"
      [] i = 2 -> "claims"
      [] i = 3 -> "receivers"
      [] i = 4 -> "summary"

\* The statement after the load of LoadOrder[i].
next_pc(i) == IF i < Len(LoadOrder) THEN LoadOrder[i + 1] ELSE "summary"

Index(t) == CHOOSE i \in 1..Len(LoadOrder) : LoadOrder[i] = t

\* ------------------------------------------ the SQL of the query catalog
\* A nullable SQL value is the empty set (NULL) or the set of its value.
\* A ROUND(..., 2) column is held in hundredths: 66.67 is 6667.
Null == {}
The(v) == CHOOSE x \in v : TRUE

\* column col of the row of a LEFT JOIN operand that may be missing
Col(o, col) == IF o = Null THEN Null ELSE {The(o)[col]}

RECURSIVE SumPairs(_)
SumPairs(S) ==
    IF S = {} THEN 0
    ELSE LET p == CHOOSE x \in S : TRUE IN p[2] + SumPairs(S \ {p})

\* SUM(e): NULL when no row has a non-NULL e.
SUM(J, E(_)) ==
    LET nn == {j \in J : E(j) # Null}
    IN  IF nn = {} THEN Null ELSE {SumPairs({<<j, The(E(j))>> : j \in nn})}

\* COUNT(e) counts the rows whose e is not NULL.
COUNT(J, E(_)) == Cardinality({j \in J : E(j) # Null})

COUNT_DISTINCT(J, E(_)) == Cardinality({E(j) : j \in J} \ {Null})

MIN(J, E(_)) ==
    LET vs == UNION {E(j) : j \in J}
    IN  IF vs = {} THEN Null ELSE {CHOOSE v \in vs : \A w \in vs : v <= w}

MAX(J, E(_)) ==
    LET vs == UNION {E(j) : j \in J}
    IN  IF vs = {} THEN Null ELSE {CHOOSE v \in vs : \A w \in vs : v >= w}

NULLIF(v, z) == IF v = {z} THEN Null ELSE v

\* A division that answers 0 for a zero or NULL divisor.
RoundDiv_zero(num, den) ==
    IF num = Null \/ den = Null \/ den = {0} THEN {0}
    ELSE {(200 * The(num) + The(den)) \div (2 * The(den))}

\* ROUND(num * 1.0 / den, 2), in hundredths. SQLite's "/" answers NULL for
\* a zero or NULL divisor; ROUND rounds half away from zero.
RoundDiv(num, den) ==
    IF num = Null \/ den = Null \/ den = {0} THEN Null
    ELSE {(200 * The(num) + The(den)) \div (2 * The(den))}

\* ROUND(num * 100.0 / den, 2)
Percent(num, den) ==
    RoundDiv(IF num = Null THEN Null ELSE {100 * The(num)}, den)

\* ROUND(AVG(e), 2)
AVG(J, E(_)) == RoundDiv(SUM(J, E), {COUNT(J, E)})

\* A DESC column sorted in ascending order.
Desc_ascending(v) == IF v = Null THEN 1 ELSE The(v)

\* ORDER BY: the keys are tuples of integers, smallest first. A DESC
\* column is negated; NULL sorts before every value, so after them all
\* under DESC (the values here are never negative).
Desc(v) == IF v = Null THEN 1 ELSE 0 - The(v)

LexLess(a, b) ==
    \E i \in 1..Len(a) : a[i] < b[i] /\ \A j \in 1..(i - 1) : a[j] = b[j]

\* The row sequences an ORDER BY allows for the keyed rows S (pairs
\* <<key, row>>): SQL leaves the order of rows with equal keys to the
\* engine.
RECURSIVE OrderBy(_)
OrderBy(S) ==
    IF S = {} THEN {<<>>}
    ELSE UNION { { <<x[2]>> \o s : s \in OrderBy(S \ {x}) } :
                 x \in {y \in S : \A z \in S : ~LexLess(z[1], y[1])} }

\* The rows R with their ORDER BY keys.
Keyed(R, Key(_)) == { <<Key(r), r>> : r \in R }

\* A query that ignores its HAVING clause.
HAVING_none(R, col) == R

\* HAVING col > 0
HAVING(R, col) == {x \in R : x[col] > 0}

\* A query that ignores its LIMIT.
LimitNone(seqs, k) == seqs

\* LIMIT k
Limit(seqs, k) ==
    { SubSeq(s, 1, IF Len(s) < k THEN Len(s) ELSE k) : s \in seqs }

\* The binary collation of the city names in use.
CityOrd(city) ==
    CASE city = "Delhi" -> 1
      [] city = "Metro" -> 2
      [] OTHER          -> 3

\* The text order of the dates in use ('nan' sorts after every date).
DateOrd(d) ==
    CASE d = "2020-01-01" -> 1
      [] d = "2025-06-01" -> 2
      [] d = "2030-01-01" -> 3
      [] OTHER            -> 4

Rows(db, t) == BagToSet(db[t])

\* The right-hand rows of a LEFT JOIN for one left-hand row: the matching
\* rows, or one NULL row when there is none.
Matching(R, On(_)) ==
    LET m == {y \in R : On(y)} IN IF m = {} THEN {Null} ELSE {{y} : y \in m}

\* providers p LEFT JOIN food_listings f ON p.provider_id = f.provider_id
JoinPF(db) ==
    UNION { LET On(f) == f.provider_id = p.provider_id
            IN  { [p |-> {p}, f |-> f] :
                  f \in Matching(Rows(db, "food_listings"), On) } :
            p \in Rows(db, "providers") }

\* ... LEFT JOIN claims c ON f.food_id = c.food_id
JoinPFC(db) ==
    UNION { LET On(c) == {c.food_id} = Col(j.f, "food_id")
            IN  { [p |-> j.p, f |-> j.f, c |-> c] :
                  c \in Matching(Rows(db, "claims"), On) } :
            j \in JoinPF(db) }

\* food_listings f LEFT JOIN claims c ON f.food_id = c.food_id
JoinFC(db) ==
    UNION { LET On(c) == c.food_id = f.food_id
            IN  { [f |-> {f}, c |-> c] :
                  c \in Matching(Rows(db, "claims"), On) } :
            f \in Rows(db, "food_listings") }

\* ... LEFT JOIN providers p ON f.provider_id = p.provider_id
JoinFCP(db) ==
    UNION { LET On(p) == {p.provider_id} = Col(j.f, "provider_id")
            IN  { [f |-> j.f, c |-> j.c, p |-> p] :
                  p \in Matching(Rows(db, "providers"), On) } :
            j \in JoinFC(db) }

\* receivers r LEFT JOIN claims c ON r.receiver_id = c.receiver_id
\*             LEFT JOIN food_listings f ON c.food_id = f.food_id
JoinRCF(db) ==
    UNION { UNION { LET On(f) == {f.food_id} = Col(c, "food_id")
                    IN  { [r |-> {r}, c |-> c, f |-> f] :
                          f \in Matching(Rows(db, "food_listings"), On) } :
                    c \in LET OnC(x) == x.receiver_id = r.receiver_id
                          IN  Matching(Rows(db, "claims"), OnC) } :
            r \in Rows(db, "receivers") }

\* COUNT(CASE WHEN c.status = st THEN 1 END)
CountStatus(J, st) == Cardinality({j \in J : Col(j.c, "status") = {st}})

\* SUM(CASE WHEN c.status = 'Completed' THEN f.quantity ELSE 0 END)
SumCompleted(J) ==
    LET E(j) == IF Col(j.c, "status") = {"Completed"}
                THEN Col(j.f, "quantity") ELSE {0}
    IN  SUM(J, E)

\* (SELECT SUM(quantity) FROM food_listings)
TotalQuantity(db) ==
    LET E(f) == {f.quantity} IN SUM(Rows(db, "food_listings"), E)

\* ------------------------------------------------- FoodWastageAnalyzer
\* Each query is the set of row sequences its SELECT can return on db.
query_1_providers_receivers_by_city(db) ==
    LET P == Rows(db, "providers")
        R == Rows(db, "receivers")
        row(c) ==
          LET np == Cardinality({p \in P : p.city = c})
              nr == Cardinality({r \in R : r.city = c})
          IN  [city |-> c, providers |-> np, receivers |-> nr,
               total_entities |-> np + nr]
        result == {row(c) : c \in {p.city : p \in P} \cup {r.city : r \in R}}
        Key(x) == <<0 - x.total_entities, CityOrd(x.city)>>
    IN  OrderBy(Keyed(result, Key))

query_2_top_provider_types(db) ==
    LET J == JoinPF(db)
        Pid(j) == Col(j.p, "provider_id")
        Fid(j) == Col(j.f, "food_id")
        Q(j) == Col(j.f, "quantity")
        row(ty) ==
          LET G == {j \in J : Col(j.p, "type") = {ty}}
          IN  [provider_type |-> ty,
               number_of_providers |-> COUNT_DISTINCT(G, Pid),
               total_food_listings |-> COUNT(G, Fid),
               total_quantity_contributed |-> SUM(G, Q),
               avg_quantity_per_listing |-> AVG(G, Q),
               percentage_of_total_quantity |->
                   Percent(SUM(G, Q), TotalQuantity(db))]
        result == {row(ty) : ty \in {p.type : p \in Rows(db, "providers")}}
        Key(x) == <<Desc(x.total_quantity_contributed)>>
    IN  OrderBy(Keyed(result, Key))

\* provider_contacts is held as the set of the concatenated entries.
\* WHERE city IS NOT NULL AND contact IS NOT NULL keeps every row: the
\* loaders store str(...) and '' in these columns, never NULL.
query_3_provider_contacts_by_city(db) ==
    LET P == Rows(db, "providers")
        row(c) ==
          LET G == {p \in P : p.city = c}
          IN  [city |-> c, total_providers |-> Cardinality(G),
               provider_contacts |-> {<<p.name, p.type, p.contact>> : p \in G}]
        result == {row(c) : c \in {p.city : p \in P}}
        Key(x) == <<0 - x.total_providers>>
    IN  OrderBy(Keyed(result, Key))

query_4_top_food_claimers(db) ==
    LET J == JoinRCF(db)
        Cid(j) == Col(j.c, "claim_id")
        row(r) ==
          LET G == {j \in J : j.r = {r}}
          IN  [receiver_id |-> r.receiver_id, receiver_name |-> r.name,
               receiver_type |-> r.type, city |-> r.city,
               contact |-> r.contact,
               total_claims |-> COUNT(G, Cid),
               completed_claims |-> CountStatus(G, "Completed"),
               pending_claims |-> CountStatus(G, "Pending"),
               cancelled_claims |-> CountStatus(G, "Cancelled"),
               success_rate_percentage |->
                   Percent({CountStatus(G, "Completed")}, {COUNT(G, Cid)}),
               total_food_received |-> SumCompleted(G)]
        having == HAVING({row(r) : r \in Rows(db, "receivers")},
                         "total_claims")
        Key(x) == <<Desc(x.total_food_received), 0 - x.total_claims>>
    IN  Limit(OrderBy(Keyed(having, Key)), 20)

\* A listing that counts as expired only after its expiry date.
Expired_after(expiry_date, now) == DateOrd(expiry_date) < DateOrd(now)

\* expiry_date <= date('now'), a comparison of texts
Expired(expiry_date, now) == DateOrd(expiry_date) <= DateOrd(now)

\* expiry_date > date('now')
NotExpired(expiry_date, now) == DateOrd(expiry_date) > DateOrd(now)

\* now is the value of date('now').
query_5_total_food_available(db, now) ==
    LET F == Rows(db, "food_listings")
        Q(f) == {f.quantity}
        Fid(f) == {f.food_id}
        Pid(f) == {f.provider_id}
        Loc(f) == {f.location}
    IN  { << [total_food_items |-> COUNT(F, Fid),
              total_quantity_available |-> SUM(F, Q),
              contributing_providers |-> COUNT_DISTINCT(F, Pid),
              locations_covered |-> COUNT_DISTINCT(F, Loc),
              avg_quantity_per_item |-> AVG(F, Q),
              min_quantity |-> MIN(F, Q),
              max_quantity |-> MAX(F, Q),
              items_not_expired |->
                  Cardinality({f \in F : NotExpired(f.expiry_date, now)}),
              items_expired |->
                  Cardinality({f \in F : Expired(f.expiry_date, now)})]
         >> }

query_6_food_listings_by_city(db) ==
    LET F == Rows(db, "food_listings")
        Q(f) == {f.quantity}
        Fid(f) == {f.food_id}
        Pid(f) == {f.provider_id}
        Ft(f) == {f.food_type}
        Mt(f) == {f.meal_type}
        row(loc) ==
          LET G == {f \in F : f.location = loc}
          IN  [city |-> loc, total_listings |-> COUNT(G, Fid),
               total_quantity |-> SUM(G, Q),
               unique_providers |-> COUNT_DISTINCT(G, Pid),
               food_type_variety |-> COUNT_DISTINCT(G, Ft),
               meal_type_variety |-> COUNT_DISTINCT(G, Mt),
               avg_quantity_per_listing |-> AVG(G, Q),
               percentage_of_total_food |->
                   Percent(SUM(G, Q), TotalQuantity(db))]
        result == {row(loc) : loc \in {f.location : f \in F}}
        Key(x) == <<Desc(x.total_quantity), 0 - x.total_listings>>
    IN  OrderBy(Keyed(result, Key))

query_7_common_food_types(db) ==
    LET F == Rows(db, "food_listings")
        Q(f) == {f.quantity}
        Fid(f) == {f.food_id}
        Pid(f) == {f.provider_id}
        Loc(f) == {f.location}
        row(ft) ==
          LET G == {f \in F : f.food_type = ft}
          IN  [food_type |-> ft, number_of_listings |-> COUNT(G, Fid),
               total_quantity |-> SUM(G, Q),
               avg_quantity_per_listing |-> AVG(G, Q),
               providers_offering |-> COUNT_DISTINCT(G, Pid),
               cities_available |-> COUNT_DISTINCT(G, Loc),
               percentage_of_listings |->
                   Percent({COUNT(G, Fid)}, {Cardinality(F)}),
               percentage_of_total_quantity |->
                   Percent(SUM(G, Q), TotalQuantity(db))]
        result == {row(ft) : ft \in {f.food_type : f \in F}}
        Key(x) == <<Desc(x.total_quantity)>>
    IN  OrderBy(Keyed(result, Key))

query_8_claims_per_food_item(db) ==
    LET J == JoinFCP(db)
        Cid(j) == Col(j.c, "claim_id")
        row(k) ==
          LET G == {j \in J : <<j.f, Col(j.p, "name")>> = k}
              f == The(k[1])
          IN  [food_id |-> f.food_id, food_name |-> f.food_name,
               available_quantity |-> f.quantity, food_type |-> f.food_type,
               meal_type |-> f.meal_type, location |-> f.location,
               provider_name |-> k[2],
               total_claims |-> COUNT(G, Cid),
               completed_claims |-> CountStatus(G, "Completed"),
               pending_claims |-> CountStatus(G, "Pending"),
               cancelled_claims |-> CountStatus(G, "Cancelled"),
               claim_success_rate |->
                   Percent({CountStatus(G, "Completed")},
                           NULLIF({COUNT(G, Cid)}, 0))]
        having == HAVING({row(k) : k \in {<<j.f, Col(j.p, "name")>> : j \in J}},
                         "total_claims")
        Key(x) == <<0 - x.total_claims, 0 - x.completed_claims>>
    IN  OrderBy(Keyed(having, Key))

query_9_successful_providers(db) ==
    LET J == JoinPFC(db)
        Cid(j) == Col(j.c, "claim_id")
        Fid(j) == Col(j.f, "food_id")
        row(p) ==
          LET G == {j \in J : j.p = {p}}
          IN  [provider_id |-> p.provider_id, provider_name |-> p.name,
               provider_type |-> p.type, city |-> p.city,
               contact |-> p.contact,
               total_food_items_listed |-> COUNT_DISTINCT(G, Fid),
               total_claims_received |-> COUNT(G, Cid),
               successful_claims |-> CountStatus(G, "Completed"),
               pending_claims |-> CountStatus(G, "Pending"),
               cancelled_claims |-> CountStatus(G, "Cancelled"),
               success_rate_percentage |->
                   Percent({CountStatus(G, "Completed")},
                           NULLIF({COUNT(G, Cid)}, 0)),
               total_food_distributed |-> SumCompleted(G)]
        having == HAVING({row(p) : p \in Rows(db, "providers")},
                         "total_claims_received")
        Key(x) == <<0 - x.successful_claims, Desc(x.total_food_distributed)>>
    IN  Limit(OrderBy(Keyed(having, Key)), 15)

\* The text order of the timestamps in use.
TimeOrd(ts) ==
    CASE ts = "2025-01-01 10:00:00" -> 1
      [] ts = "2025-01-02 10:00:00" -> 2
      [] OTHER                      -> 3

\* MIN(timestamp) / MAX(timestamp)
Earliest(C) ==
    IF C = {} THEN Null
    ELSE {(CHOOSE c \in C : \A x \in C : TimeOrd(c.timestamp) <= TimeOrd(x.timestamp)).timestamp}

Latest(C) ==
    IF C = {} THEN Null
    ELSE {(CHOOSE c \in C : \A x \in C : TimeOrd(c.timestamp) >= TimeOrd(x.timestamp)).timestamp}

\* Query 10 with the statuses ranked Pending, Completed, Cancelled.
sort_order_pending_first(status) ==
    CASE status = "Pending"   -> 1
      [] status = "Completed" -> 2
      [] status = "Cancelled" -> 3
      [] status = "TOTAL"     -> 5
      [] OTHER                -> 4

\* The sort_order column of query 10: its CASE for the statuses, 5 for
\* the TOTAL row.
sort_order(status) ==
    CASE status = "Completed" -> 1
      [] status = "Pending"   -> 2
      [] status = "Cancelled" -> 3
      [] status = "TOTAL"     -> 5
      [] OTHER                -> 4

query_10_claim_status_distribution(db) ==
    LET C == Rows(db, "claims")
        Rid(c) == {c.receiver_id}
        Fid(c) == {c.food_id}
        row(st) ==
          LET G == {c \in C : c.status = st}
          IN  [status |-> st, claim_count |-> Cardinality(G),
               percentage |-> Percent({Cardinality(G)}, {Cardinality(C)}),
               unique_receivers |-> COUNT_DISTINCT(G, Rid),
               unique_food_items |-> COUNT_DISTINCT(G, Fid),
               earliest_claim |-> Earliest(G), latest_claim |-> Latest(G)]
        total ==
          [status |-> "TOTAL", claim_count |-> Cardinality(C),
           percentage |-> {10000},
           unique_receivers |-> COUNT_DISTINCT(C, Rid),
           unique_food_items |-> COUNT_DISTINCT(C, Fid),
           earliest_claim |-> Earliest(C), latest_claim |-> Latest(C)]
        status_summary == {row(st) : st \in {c.status : c \in C}} \cup {total}
        Key(x) == <<sort_order(x.status)>>
    IN  OrderBy(Keyed(status_summary, Key))

query_11_avg_food_per_receiver(db) ==
    LET J == JoinRCF(db)
        Cid(j) == Col(j.c, "claim_id")
        Rid(j) == Col(j.r, "receiver_id")
        QDone(j) == IF Col(j.c, "status") = {"Completed"}
                    THEN Col(j.f, "quantity") ELSE Null
        row(ty) ==
          LET G == {j \in J : Col(j.r, "type") = {ty}}
          IN  [receiver_type |-> ty,
               total_receivers |-> COUNT_DISTINCT(G, Rid),
               total_claims |-> COUNT(G, Cid),
               completed_claims |-> CountStatus(G, "Completed"),
               total_food_received |-> SumCompleted(G),
               avg_food_per_completed_claim |-> AVG(G, QDone),
               avg_food_per_receiver |->
                   RoundDiv(SumCompleted(G),
                            NULLIF({COUNT_DISTINCT(G, Rid)}, 0)),
               avg_successful_claims_per_receiver |->
                   RoundDiv({CountStatus(G, "Completed")},
                            NULLIF({COUNT_DISTINCT(G, Rid)}, 0))]
        result == {row(ty) : ty \in {r.type : r \in Rows(db, "receivers")}}
        Key(x) == <<Desc(x.avg_food_per_receiver)>>
    IN  OrderBy(Keyed(result, Key))

query_12_meal_type_popularity(db) ==
    LET J == JoinFC(db)
        Cid(j) == Col(j.c, "claim_id")
        Fid(j) == Col(j.f, "food_id")
        Q(j) == Col(j.f, "quantity")
        row(mt) ==
          LET G == {j \in J : Col(j.f, "meal_type") = {mt}}
          IN  [meal_type |-> mt,
               total_food_items |-> COUNT_DISTINCT(G, Fid),
               total_quantity_available |-> SUM(G, Q),
               total_claims |-> COUNT(G, Cid),
               completed_claims |-> CountStatus(G, "Completed"),
               pending_claims |-> CountStatus(G, "Pending"),
               cancelled_claims |-> CountStatus(G, "Cancelled"),
               total_quantity_claimed |-> SumCompleted(G),
               claims_per_food_item_ratio |->
                   Percent({COUNT(G, Cid)}, NULLIF({COUNT_DISTINCT(G, Fid)}, 0)),
               success_rate_percentage |->
                   Percent({CountStatus(G, "Completed")},
                           NULLIF({COUNT(G, Cid)}, 0)),
               utilization_rate_percentage |->
                   Percent(SumCompleted(G), NULLIF(SUM(G, Q), 0))]
        result == {row(mt) : mt \in {f.meal_type : f \in Rows(db, "food_listings")}}
        Key(x) == <<Desc(x.total_quantity_claimed), 0 - x.total_claims>>
    IN  OrderBy(Keyed(result, Key))

query_13_provider_food_donations(db) ==
    LET J == JoinPFC(db)
        Cid(j) == Col(j.c, "claim_id")
        Fid(j) == Col(j.f, "food_id")
        Q(j) == Col(j.f, "quantity")
        Ft(j) == Col(j.f, "food_type")
        Mt(j) == Col(j.f, "meal_type")
        row(p) ==
          LET G == {j \in J : j.p = {p}}
          IN  [provider_id |-> p.provider_id, provider_name |-> p.name,
               provider_type |-> p.type, city |-> p.city,
               total_food_items |-> COUNT(G, Fid),
               total_quantity_donated |-> SUM(G, Q),
               avg_quantity_per_item |-> AVG(G, Q),
               food_type_variety |-> COUNT_DISTINCT(G, Ft),
               meal_type_variety |-> COUNT_DISTINCT(G, Mt),
               total_claims_received |-> COUNT(G, Cid),
               successful_distributions |-> CountStatus(G, "Completed"),
               quantity_successfully_distributed |-> SumCompleted(G),
               distribution_efficiency_percentage |->
                   Percent(SumCompleted(G), NULLIF(SUM(G, Q), 0))]
        having == HAVING({row(p) : p \in Rows(db, "providers")},
                         "total_food_items")
        Key(x) == <<Desc(x.total_quantity_donated)>>
    IN  OrderBy(Keyed(having, Key))

query_14_geographic_food_distribution(db) ==
    LET J == JoinFCP(db)
        Cid(j) == Col(j.c, "claim_id")
        Fid(j) == Col(j.f, "food_id")
        Pid(j) == Col(j.p, "provider_id")
        Rid(j) == Col(j.c, "receiver_id")
        Q(j) == Col(j.f, "quantity")
        row(loc) ==
          LET G == {j \in J : Col(j.f, "location") = {loc}}
          IN  [city |-> loc,
               total_providers |-> COUNT_DISTINCT(G, Pid),
               total_food_listings |-> COUNT_DISTINCT(G, Fid),
               total_food_available |-> SUM(G, Q),
               total_claims |-> COUNT(G, Cid),
               completed_claims |-> CountStatus(G, "Completed"),
               food_distributed |-> SumCompleted(G),
               unique_receivers_served |-> COUNT_DISTINCT(G, Rid),
               avg_claims_per_food_item |->
                   RoundDiv({COUNT(G, Cid)}, NULLIF({COUNT_DISTINCT(G, Fid)}, 0)),
               claim_success_rate |->
                   Percent({CountStatus(G, "Completed")},
                           NULLIF({COUNT(G, Cid)}, 0)),
               food_utilization_rate |->
                   Percent(SumCompleted(G), NULLIF(SUM(G, Q), 0))]
        result == {row(loc) : loc \in {f.location : f \in Rows(db, "food_listings")}}
        Key(x) == <<Desc(x.food_distributed), Desc(x.total_food_available)>>
    IN  OrderBy(Keyed(result, Key))

\* The seven metric rows, keyed by the rank of (metric_category,
\* metric_name) in text order.
query_15_comprehensive_system_metrics(db) ==
    LET P == Rows(db, "providers")
        R == Rows(db, "receivers")
        F == Rows(db, "food_listings")
        C == Rows(db, "claims")
        done == {c \in C : c.status = "Completed"}
        \* claims c INNER JOIN food_listings f ... WHERE c.status = 'Completed'
        CF == {<<c, f>> \in done \X F : c.food_id = f.food_id}
        QCF(j) == {j[2].quantity}
        Metric(cat, name, value, pct) ==
          [metric_category |-> cat, metric_name |-> name,
           metric_value |-> value, percentage |-> pct]
    IN  OrderBy({
          << <<4, 1>>, Metric("System Overview", "Total Active Providers",
                 {Cardinality({p \in P : \E f \in F :
                                 p.provider_id = f.provider_id})}, Null) >>,
          << <<4, 2>>, Metric("System Overview", "Total Active Receivers",
                 {Cardinality({r \in R : \E c \in C :
                                 r.receiver_id = c.receiver_id})}, Null) >>,
          << <<3, 1>>, Metric("Food Availability", "Total Food Items Listed",
                 {Cardinality(F)}, Null) >>,
          << <<3, 2>>, Metric("Food Availability", "Total Quantity Available",
                 TotalQuantity(db), Null) >>,
          << <<1, 2>>, Metric("Claims Performance", "Total Claims Made",
                 {Cardinality(C)}, Null) >>,
          << <<1, 1>>, Metric("Claims Performance", "Successful Claims",
                 {Cardinality(done)},
                 Percent({Cardinality(done)}, {Cardinality(C)})) >>,
          << <<2, 1>>, Metric("Distribution Efficiency",
                 "Food Successfully Distributed",
                 SUM(CF, QCF), Percent(SUM(CF, QCF), TotalQuantity(db))) >> })

\* The names run_all_queries gives the fifteen queries, in call order.
queries ==
    << "Query 1: Providers & Receivers by City", "Query 2: Top Provider Types",
       "Query 3: Provider Contacts by City", "Query 4: Top Food Claimers",
       "Query 5: Total Food Available", "Query 6: Food Listings by City",
       "Query 7: Common Food Types", "Query 8: Claims per Food Item",
       "Query 9: Successful Providers", "Query 10: Claim Status Distribution",
       "Query 11: Average Food per Receiver", "Query 12: Meal Type Popularity",
       "Query 13: Provider Food Donations", "Query 14: Geographic Distribution",
       "Query 15: System Metrics" >>

\* The row sequences query n can return.
query_func(n, db, now) ==
    CASE n = 1  -> query_1_providers_receivers_by_city(db)
      [] n = 2  -> query_2_top_provider_types(db)
      [] n = 3  -> query_3_provider_contacts_by_city(db)
      [] n = 4  -> query_4_top_food_claimers(db)
      [] n = 5  -> query_5_total_food_available(db, now)
      [] n = 6  -> query_6_food_listings_by_city(db)
      [] n = 7  -> query_7_common_food_types(db)
      [] n = 8  -> query_8_claims_per_food_item(db)
      [] n = 9  -> query_9_successful_providers(db)
      [] n = 10 -> query_10_claim_status_distribution(db)
      [] n = 11 -> query_11_avg_food_per_receiver(db)
      [] n = 12 -> query_12_meal_type_popularity(db)
      [] n = 13 -> query_13_provider_food_donations(db)
      [] n = 14 -> query_14_geographic_food_distribution(db)
      [] n = 15 -> query_15_comprehensive_system_metrics(db)

\* A test of result.empty that never finds a result empty.
empty_never(df) == FALSE

\* result.empty
empty(df) == df = <<>>

\* The loop of run_all_queries from query i on. frames[n] is what the
\* SELECT of query n evaluates to and up[n] tells whether the store answers
\* it; results collects the names of the queries whose result is neither
\* None nor empty (the keys of the dictionary).
RECURSIVE run_all_queries(_, _, _, _)
run_all_queries(db, i, up, frames) ==
    IF i > Len(queries) THEN [results |-> {}, db |-> db]
    ELSE LET result == fetch_dataframe(db, frames[i], up[i])
             rest == run_all_queries(result.db, i + 1, up, frames)
         IN  [results |-> rest.results \cup
                          (IF result.ok /\ ~empty(result.df)
                           THEN {queries[i]} ELSE {}),
              db |-> rest.db]

\* get_quick_insights: queries 15, 2 and 10, printed; any exception of the
\* printing is caught.
get_quick_insights(db, up, frames) ==
    LET metrics == fetch_dataframe(db, frames[15], up[1])
        providers == fetch_dataframe(metrics.db, frames[2], up[2])
        status_dist == fetch_dataframe(providers.db, frames[10], up[3])
    IN  [db |-> status_dist.db]

\* ------------------------------------------------ the schema of the store
\* create_indexes: the names of its indexes in the order of its list, and
\* the table each is on.
indexes ==
    << "idx_providers_city", "idx_providers_type",
       "idx_receivers_city", "idx_receivers_type",
       "idx_food_location", "idx_food_type", "idx_food_meal_type",
       "idx_food_expiry", "idx_claims_status", "idx_claims_timestamp" >>

IndexTable ==
    [idx_providers_city |-> "providers", idx_providers_type |-> "providers",
     idx_receivers_city |-> "receivers", idx_receivers_type |-> "receivers",
     idx_food_location |-> "food_listings", idx_food_type |-> "food_listings",
     idx_food_meal_type |-> "food_listings",
     idx_food_expiry |-> "food_listings",
     idx_claims_status |-> "claims", idx_claims_timestamp |-> "claims"]

Indexes == DOMAIN IndexTable

\* All that create_all_tables puts in the store.
Objects == Tables \cup Indexes

\* The tables that the FOREIGN KEY clauses of table t refer to.
References(t) ==
    CASE t = "food_listings" -> {"providers"}
      [] t = "claims" -> {"food_listings", "receivers"}
      [] OTHER -> {}

\* get_connection: "None" where sqlite3.connect raised sqlite3.Error.
get_connection(up) == IF up THEN "conn" ELSE "None"

\* cursor.execute(query) and conn.commit() on an open connection. A
\* statement q is a kind and the name of a table or an index (with the
\* table of the index); schema is the set of the names of the tables and
\* indexes in the store, db their rows. ret is "None" where the engine
\* raised sqlite3.Error (no such table), "rows" for cursor.fetchall().
\* FOREIGN KEYs are not enforced, so a DROP never fails on a reference.
execute(schema, db, q) ==
    LET None == [ret |-> "None", raised |-> FALSE, schema |-> schema, db |-> db]
        rows == [None EXCEPT !.ret = "rows"]
    IN  CASE q.kind = "CREATE TABLE IF NOT EXISTS" ->
               [rows EXCEPT !.schema = schema \cup {q.name}]
          [] q.kind = "CREATE INDEX IF NOT EXISTS" ->
               IF q.table \in schema
               THEN [rows EXCEPT !.schema = schema \cup {q.name}]
               ELSE None
          [] q.kind = "DROP TABLE IF EXISTS" ->
               [rows EXCEPT
                  !.schema = schema \ ({q.name} \cup
                                {ix \in Indexes : IndexTable[ix] = q.name}),
                  !.db = [db EXCEPT ![q.name] = EmptyBag]]
          [] q.kind = "DELETE FROM" ->
               IF q.name \in schema
               THEN [rows EXCEPT !.db = [db EXCEPT ![q.name] = EmptyBag]]
               ELSE None
          [] q.kind = "SELECT COUNT(*) FROM" ->
               IF q.name \in schema THEN rows ELSE None
          [] OTHER -> \* SELECT name FROM sqlite_master, PRAGMA table_info
               rows

\* execute_query without its "if conn is None: return None": conn.cursor()
\* on None raises AttributeError, which is no sqlite3.Error.
execute_query_unguarded(schema, db, q, up) ==
    IF get_connection(up) = "None"
    THEN [ret |-> "None", raised |-> TRUE, schema |-> schema, db |-> db]
    ELSE execute(schema, db, q)

\* execute_query: None when there is no connection or the statement
\* raised sqlite3.Error.
execute_query(schema, db, q, up) ==
    IF get_connection(up) = "None"
    THEN [ret |-> "None", raised |-> FALSE, schema |-> schema, db |-> db]
    ELSE execute(schema, db, q)

\* table_exists: "len(result) > 0 if result else False".
table_exists(schema, db, table_name, up) ==
    LET result == execute_query(schema, db,
                                [kind |-> "SELECT name FROM sqlite_master",
                                 name |-> table_name], up)
    IN  [result EXCEPT
           !.ret = IF result.ret # "None" /\ table_name \in schema
                   THEN "True" ELSE "False"]

\* get_table_info: PRAGMA table_info(<table_name>).
get_table_info(schema, db, table_name, up) ==
    execute_query(schema, db,
                  [kind |-> "PRAGMA table_info", name |-> table_name], up)

\* get_all_tables: "[row[0] for row in result] if result else []".
get_all_tables(schema, db, up) ==
    LET result == execute_query(schema, db,
                                [kind |-> "SELECT name FROM sqlite_master",
                                 name |-> "all"], up)
    IN  [result EXCEPT
           !.ret = IF result.ret # "None" /\ schema \cap Tables # {}
                   THEN "names" ELSE "[]"]

\* drop_table: DROP TABLE IF EXISTS <table_name>.
drop_table(schema, db, table_name, up) ==
    execute_query(schema, db,
                  [kind |-> "DROP TABLE IF EXISTS", name |-> table_name], up)

\* ----------------------------------------------------------- TableCreator
\* A create_<t>_table that drops the table before it creates it.
create_table_afresh(schema, db, t, up) ==
    LET d == drop_table(schema, db, t, up)
    IN  execute_query(d.schema, d.db,
                      [kind |-> "CREATE TABLE IF NOT EXISTS", name |-> t], up)

\* create_providers_table, create_receivers_table,
\* create_food_listings_table, create_claims_table: they differ only in
\* the table and its columns.
create_table(schema, db, t, up) ==
    execute_query(schema, db,
                  [kind |-> "CREATE TABLE IF NOT EXISTS", name |-> t], up)

\* create_indexes from its i-th statement on; up[i] tells whether the store
\* answers the i-th. The results of execute_query are not looked at.
RECURSIVE create_indexes(_, _, _, _)
create_indexes(schema, db, i, up) ==
    IF i > Len(indexes)
    THEN [ret |-> "None", raised |-> FALSE, schema |-> schema, db |-> db]
    ELSE LET r == execute_query(schema, db,
                                [kind |-> "CREATE INDEX IF NOT EXISTS",
                                 name |-> indexes[i],
                                 table |-> IndexTable[indexes[i]]], up[i])
         IN  IF r.raised THEN r
             ELSE create_indexes(r.schema, r.db, i + 1, up)

\* create_all_tables: up[1..4] tell whether the store answers the four
\* CREATE TABLE statements, up[5..14] the ten CREATE INDEX statements. The
\* results of the create_* calls are not looked at: the function returns
\* False only from its "except Exception".
create_all_tables(schema, db, up) ==
    LET p == create_table(schema, db, "providers", up[1])
        r == IF p.raised THEN p
             ELSE create_table(p.schema, p.db, "receivers", up[2])
        f == IF r.raised THEN r
             ELSE create_table(r.schema, r.db, "food_listings", up[3])
        c == IF f.raised THEN f
             ELSE create_table(f.schema, f.db, "claims", up[4])
        x == IF c.raised THEN c
             ELSE create_indexes(c.schema, c.db, 1,
                                 [i \in 1..Len(indexes) |-> up[i + 4]])
    IN  [ret |-> IF x.raised THEN "False" ELSE "True", raised |-> FALSE,
         schema |-> x.schema, db |-> x.db]

\* drop_all_tables: the order of its list.
tables == <<"claims", "food_listings", "receivers", "providers">>

\* ------------------------------------------------------------- the state
VARIABLES
    db,             \* the store: table name -> bag of rows
    pc,             \* load_all_data: "idle", the table to load next, "summary"
    success_count,  \* load_all_data's local counter
    called,         \* load_all_data: the loaders called so far, in call order
    run,            \* the load_all_data call, if it is the operation in
                    \* progress or last finished
    last,           \* the last loader or integrity call of the operation in
                    \* progress or last finished
    all_ok,         \* every loader call so far returned True
    report,         \* the last call of the query catalog and what it
                    \* returned
    schema,         \* the names of the tables and indexes in the store
    dropping,       \* drop_all_tables: the tables its loop has yet to drop
    ddl             \* the last call of the DatabaseManager or of the
                    \* TableCreator and what it did

vars ==
    <<db, pc, success_count, called, run, last, all_ok, report,
      schema, dropping, ddl>>

\* What the loaders and the queries leave alone.
schema_vars == <<schema, dropping, ddl>>

NoRun ==
    [missing |-> {}, started |-> FALSE, done |-> FALSE, ret |-> FALSE,
     loaded |-> {}]

NoCall ==
    [op |-> "none", table |-> "none", ret |-> FALSE, read |-> FALSE,
     n_recs |-> 0, n_valid |-> 0, kept |-> FALSE, dropped |-> FALSE,
     unmatched |-> FALSE, after |-> "none", load_ret |-> FALSE,
     raised |-> FALSE, rejected |-> FALSE]

\* No call of the DatabaseManager or of the TableCreator yet.
NoDdl ==
    [op |-> "none", reached |-> TRUE, ret |-> "none", raised |-> FALSE,
     kept |-> TRUE, rows_kept |-> TRUE, full |-> FALSE, complete |-> FALSE,
     failed |-> FALSE, dropped |-> {}]

\* No call of the query catalog yet.
NoReport ==
    [op |-> "none", n |-> 0, now |-> "none", ok |-> FALSE, rows |-> <<>>,
     results |-> {}, failed |-> {}]

Init ==
    /\ db = [t \in Tables |-> EmptyBag]
    /\ pc = "idle"
    /\ success_count = 0
    /\ called = <<>>
    /\ run = NoRun
    /\ last = NoCall
    /\ all_ok = TRUE
    /\ report = NoReport
    /\ schema = Objects
    /\ dropping = <<>>
    /\ ddl = NoDdl

\* A record of the source is valid when its integer cells are integers, it
\* meets the CHECK constraints and no earlier valid record has its key.
RecOk(t, rec) == CoerceOk(t, rec) /\ CheckOk(t, Coerce(t, rec))

ValidAt(t, rows, i) ==
    /\ RecOk(t, rows[i])
    /\ \A j \in 1..(i - 1) :
         RecOk(t, rows[j]) => rows[j][PkColumn(t)] # rows[i][PkColumn(t)]

NumValid(t, rows) == Cardinality({i \in 1..Len(rows) : ValidAt(t, rows, i)})

\* The claims source has a record whose receiver_id is the id of no
\* receivers row.
Unmatched(d, t, rows) ==
    /\ t = "claims"
    /\ \E i \in 1..Len(rows) :
         /\ rows[i].receiver_id \in IntCells
         /\ \A r \in BagToSet(d["receivers"]) :
              r.receiver_id # IntOf(rows[i].receiver_id)

\* The batch made of the source has a record that the engine rejects: every
\* record passes the loader's int() and str(), and one of them breaks a
\* CHECK constraint or repeats a primary key.
Rejected(t, rows) ==
    /\ \A i \in 1..Len(rows) : CoerceOk(t, rows[i])
    /\ \E i \in 1..Len(rows) : ~ValidAt(t, rows, i)

\* What is remembered of a finished call of the loader of table t on src:
\* its verdict, whether the file was read, the size of the source, and
\* whether the table kept exactly the rows it had (kept) or lost one of
\* them (dropped).
Loaded(t, src, r) ==
    [op |-> "load", table |-> t, ret |-> r.ret, read |-> src.kind = "rows",
     n_recs |-> Len(src.rows), n_valid |-> NumValid(t, src.rows),
     kept |-> r.db[t] = db[t],
     dropped |-> \E x \in BagToSet(db[t]) : x \notin BagToSet(r.db[t]),
     unmatched |-> Unmatched(db, t, src.rows),
     after |-> "none", load_ret |-> FALSE, raised |-> FALSE,
     rejected |-> Rejected(t, src.rows)]

\* The files the loaders may find, per table.
AllSources == [t \in Tables |-> Sources(t)]

\* A loader called on its own (load_providers(), ... load_claims()), on
\* one of the files Srcs[t], the store answering its DELETE and its INSERT
\* as one of Nets tells.
LoadUnder(t, Srcs, Nets) ==
    /\ pc = "idle"
    /\ \E src \in Srcs[t] : \E net \in Nets :
         LET r == load_table(db, t, src, net)
         IN  /\ db' = r.db
             /\ last' = Loaded(t, src, r)
             /\ all_ok' = (all_ok /\ r.ret)
    /\ run' = NoRun
    /\ called' = <<>>
    /\ success_count' = 0
    /\ UNCHANGED <<pc, report>>
    /\ UNCHANGED schema_vars

Load(t) == LoadUnder(t, AllSources, {StoreUp})

\* load_all_data up to its first loader call.
LoadAllDataStart ==
    /\ pc = "idle"
    /\ \E missing_files \in SUBSET Tables :
         /\ run' = [missing |-> missing_files, started |-> TRUE,
                    done |-> ~precheck(missing_files), ret |-> FALSE,
                    loaded |-> {}]
         /\ pc' = IF precheck(missing_files) THEN LoadOrder[1] ELSE "idle"
    /\ success_count' = 0
    /\ called' = <<>>
    /\ last' = NoCall
    /\ UNCHANGED <<db, all_ok, report>>
    /\ UNCHANGED schema_vars

\* One "if self.load_x(): success_count += 1" of load_all_data.
LoadAllDataStepUnder(Srcs, Nets) ==
    /\ pc \in Tables
    /\ \E src \in Srcs[pc] : \E net \in Nets :
         /\ (src.kind = "missing") <=> (pc \in run.missing)
         /\ LET r == load_table(db, pc, src, net)
            IN  /\ db' = r.db
                /\ last' = Loaded(pc, src, r)
                /\ all_ok' = (all_ok /\ r.ret)
                /\ success_count' = IF r.ret THEN success_count + 1
                                    ELSE success_count
                /\ run' = [run EXCEPT !.loaded = IF r.ret THEN @ \cup {pc}
                                                 ELSE @]
    /\ called' = Append(called, pc)
    /\ pc' = next_pc(Index(pc))
    /\ UNCHANGED report
    /\ UNCHANGED schema_vars

LoadAllDataStep == LoadAllDataStepUnder(AllSources, {StoreUp})

\* The loading summary and the return of load_all_data.
LoadAllDataFinish ==
    /\ pc = "summary"
    /\ run' = [run EXCEPT !.done = TRUE, !.ret = all_loaded(success_count)]
    /\ pc' = "idle"
    /\ success_count' = 0
    /\ UNCHANGED <<db, called, last, all_ok, report>>
    /\ UNCHANGED schema_vars

\* verify_data_integrity(), the store answering its seven SELECTs as one
\* of Ups tells.
VerifyUnder(Ups) ==
    /\ pc = "idle"
    /\ \E up \in Ups :
       LET v == verify_data_integrity(db, up)
       IN  /\ db' = v.db
           /\ last' = [NoCall EXCEPT
                         !.op = "verify", !.ret = v.ret, !.kept = (v.db = db),
                         !.raised = v.raised,
                         !.after = IF last.op = "load" THEN last.table
                                   ELSE last.after,
                         !.load_ret = IF last.op = "load" THEN last.ret
                                      ELSE last.load_ret,
                         !.unmatched = last.unmatched]
    /\ run' = NoRun
    /\ called' = <<>>
    /\ UNCHANGED <<pc, success_count, all_ok, report>>
    /\ UNCHANGED schema_vars

Verify == VerifyUnder({AllUp})

Next ==
    \/ \E t \in Tables : Load(t)
    \/ LoadAllDataStart
    \/ LoadAllDataStep
    \/ LoadAllDataFinish
    \/ Verify

Spec == Init /\ [][Next]_vars

\* ---------------------------------------------------------------- claims
RowCount(t) == get_row_count(db, t, TRUE)

\* C1 as stated: after a table's load has run on a source, the table's row
\* count is the number of valid records of the source, also for a source
\* that mixes valid and invalid records.
C1_CountIsValidRecords ==
    (last.op = "load" /\ last.read) => RowCount(last.table) = last.n_valid

\* C1 amended: after a table's load has run on a source, the row count is
\* the number of records when every record is valid, and the load returns
\* True; when any record is invalid the batch is rejected as a whole, the
\* load returns False and the table is empty.
C1_CountAllOrNothing ==
    (last.op = "load" /\ last.read) =>
        IF last.n_valid = last.n_recs
        THEN last.ret /\ RowCount(last.table) = last.n_recs
        ELSE ~last.ret /\ RowCount(last.table) = 0

\* A load has run on a source with a valid and an invalid record, over a
\* table that held rows.
C1_Witness ==
    /\ last.op = "load" /\ last.read /\ last.dropped
    /\ 0 < last.n_valid /\ last.n_valid < last.n_recs

ForeignKeysHold(d) ==
    /\ \A f \in BagToSet(d["food_listings"]) :
         \E p \in BagToSet(d["providers"]) : p.provider_id = f.provider_id
    /\ \A c \in BagToSet(d["claims"]) :
         /\ \E f \in BagToSet(d["food_listings"]) : f.food_id = c.food_id
         /\ \E r \in BagToSet(d["receivers"]) : r.receiver_id = c.receiver_id

\* C2: after any sequence of table loads that each returned success, every
\* food_listings row refers to an existing providers row and every claims
\* row to an existing food_listings row and an existing receivers row.
C2_ReferentialIntegrity == all_ok => ForeignKeysHold(db)

\* C3: in every reachable store, running a table's load a second time on
\* the same source leaves the store exactly as the first run left it.
C3_ReloadIdempotent ==
    \A t \in Tables : \A src \in Sources(t) :
        LET once  == load_table(db, t, src, StoreUp).db
            twice == load_table(once, t, src, StoreUp).db
        IN  twice = once

\* A successful load has run on a table that already held the rows the
\* source loads to, as a first load of that source leaves it.
C3_Witness ==
    /\ last.op = "load" /\ last.ret /\ last.kept /\ last.n_recs > 0
    /\ RowCount(last.table) = last.n_recs

C5_PrimaryKeysUnique ==
    \A t \in Tables : \A x \in BagToSet(db[t]) :
        /\ CopiesIn(x, db[t]) = 1
        /\ \A y \in BagToSet(db[t]) :
             y[PkColumn(t)] = x[PkColumn(t)] => y = x

\* A source with a rejected record has been loaded over a table, and a
\* table holds two rows.
C5_Witness ==
    /\ ~all_ok
    /\ last.op = "load" /\ last.ret /\ RowCount(last.table) = 2

\* C6: in every reachable state the food_listings rows have a positive
\* quantity and a food_type and meal_type of the schema's domains, and the
\* claims rows a status of the schema's domain.
C6_ValueDomains ==
    /\ \A f \in BagToSet(db["food_listings"]) :
         f.quantity > 0 /\ f.food_type \in FoodTypes /\ f.meal_type \in MealTypes
    /\ \A c \in BagToSet(db["claims"]) : c.status \in Statuses

\* Sources with out-of-domain records have been refused, and both tables
\* hold rows.
C6_Witness ==
    /\ ~all_ok
    /\ RowCount("food_listings") > 0 /\ RowCount("claims") > 0

IsPrefix(s, t) == Len(s) <= Len(t) /\ \A i \in 1..Len(s) : s[i] = t[i]

\* A step of a run calls the loader of the next table of LoadOrder, which
\* changes the rows of its own table only.
InOrderStep ==
    pc \in Tables =>
        /\ called' = Append(called, pc)
        /\ IsPrefix(called', LoadOrder)
        /\ \A t \in Tables : db'[t] # db[t] => t = pc

\* C7: every step of a load_all_data run calls the loader of the next table
\* of Providers, Receivers, FoodListings, Claims, and changes the rows of
\* that table only.
C7_DependencyOrder == [][InOrderStep]_vars

\* A run has loaded the four tables.
C7_Witness == run.done /\ run.ret /\ called = LoadOrder

Range(s) == { s[i] : i \in 1..Len(s) }

\* C8 as stated: when a source file is absent during a run, every table
\* whose file is present is still loaded by that run.
C8_OnlyThatTableAborts ==
    (run.done /\ run.missing # {}) =>
        \A t \in Tables \ run.missing : t \in Range(called)

\* C8 amended: when a source file is absent at the start of a run, the run
\* ends at once with False and calls no loader, not even those of the
\* tables whose files are present.
C8_RunAbortsWhenFileMissing ==
    (run.started /\ run.missing # {}) =>
        /\ run.done /\ ~run.ret
        /\ pc = "idle" /\ called = <<>> /\ last.op # "load"

\* A run has ended on a missing file while other files were present.
C8_Witness == run.done /\ run.missing # {} /\ run.missing # Tables

\* The load of a provider or food-listing source whose records are all
\* valid returns True.
ValidSourceLoads ==
    (/\ last.op = "load" /\ last.table \in {"providers", "food_listings"}
     /\ last.read /\ last.n_valid = last.n_recs) => last.ret

\* C9 as stated: the loads of valid provider and food-listing sources
\* succeed, and the integrity pass run after the load of a claims source
\* with a claim whose receiver_id matches no receiver returns False.
C9_UnresolvedReceiverFails ==
    /\ ValidSourceLoads
    /\ (last.op = "verify" /\ last.after = "claims" /\ last.unmatched)
           => ~last.ret

\* C9 amended: the loads of valid provider and food-listing sources
\* succeed, and the integrity pass run after a load of such a claims source
\* that returned True returns False.
C9_UnresolvedReceiverFailsIfLoaded ==
    /\ ValidSourceLoads
    /\ (/\ last.op = "verify" /\ last.after = "claims" /\ last.unmatched
        /\ last.load_ret) => ~last.ret

\* The integrity pass has run after a claims load that returned True, with
\* valid providers and food listings in the store.
C9_Witness ==
    /\ last.op = "verify" /\ last.after = "claims" /\ last.unmatched
    /\ last.load_ret
    /\ RowCount("providers") > 0 /\ RowCount("food_listings") > 0
    /\ Check1(db) = 0 /\ Check2(db) = 0

\* C10: verify_data_integrity leaves the rows of the four tables as they
\* were, whatever it reports.
C10_VerifyAdvisory == last.op = "verify" => last.kept

\* The integrity pass has reported a violation over a store with claims.
C10_Witness == last.op = "verify" /\ ~last.ret /\ RowCount("claims") > 0

\* ------------------------------------------- the query catalog at work
\* Largest number of rows of a store the queries are run on, and of
\* queries the store fails to answer in one run_all_queries.
MaxRows == 3
MaxFaults == 1

\* Rows as the loaders store them.
ProviderRow(id, type, city) ==
    [provider_id |-> id, name |-> "n", type |-> type, address |-> "a",
     city |-> city, contact |-> "x"]

ReceiverRow(id, type, city) ==
    [receiver_id |-> id, name |-> "m", type |-> type, city |-> city,
     contact |-> "y"]

FoodRow(id, quantity, provider, food_type, meal_type, location, expiry) ==
    [food_id |-> id, food_name |-> "Bread", quantity |-> quantity,
     expiry_date |-> expiry, provider_id |-> provider,
     provider_type |-> "Restaurant", location |-> location,
     food_type |-> food_type, meal_type |-> meal_type]

ClaimRow(id, food, receiver, status, timestamp) ==
    [claim_id |-> id, food_id |-> food, receiver_id |-> receiver,
     status |-> status, timestamp |-> timestamp]

ProviderRows ==
    {ProviderRow(1, "Restaurant", "Metro"), ProviderRow(2, "Grocery", "Delhi")}

ReceiverRows ==
    {ReceiverRow(1, "NGO", "Metro"), ReceiverRow(2, "Shelter", "Delhi")}

FoodRows ==
    {FoodRow(1, 5, 1, "Vegan", "Lunch", "Metro", "2030-01-01"),
     FoodRow(2, 5, 2, "Vegetarian", "Dinner", "Delhi", "2020-01-01"),
     FoodRow(3, 2, 1, "Vegan", "Lunch", "Metro", "2025-06-01"),
     FoodRow(4, 5, 3, "Non-Vegetarian", "Breakfast", "Delhi", "nan")}

ClaimRows ==
    {ClaimRow(1, 1, 1, "Completed", "2025-01-01 10:00:00"),
     ClaimRow(2, 1, 1, "Completed", "2025-01-02 10:00:00"),
     ClaimRow(3, 2, 2, "Pending", "2025-01-01 10:00:00"),
     ClaimRow(4, 2, 1, "Cancelled", "2025-01-02 10:00:00")}

\* The tables over the rows U that the engine accepts: CHECK constraints
\* met, primary keys unique.
TablesOver(t, U) ==
    { SetToBag(X) : X \in { Y \in SUBSET U :
          \A y \in Y : CheckOk(t, y) /\ PkFree(t, SetToBag(Y \ {y}), y) } }

SmallStores ==
    { s \in [providers : TablesOver("providers", ProviderRows),
             receivers : TablesOver("receivers", ReceiverRows),
             food_listings : TablesOver("food_listings", FoodRows),
             claims : TablesOver("claims", ClaimRows)] :
        BagCardinality(s.providers) + BagCardinality(s.receivers)
          + BagCardinality(s.food_listings) + BagCardinality(s.claims)
          <= MaxRows }

\* A store on which the reports of queries 4 and 9 exceed their LIMITs:
\* 21 providers, receivers and listings; listing i has quantity i and T(i)
\* claims, the first K(i) of them Completed, and no two listings have the
\* same (T, K); its first claim is receiver i's, the others name a
\* receiver_id that is in no receivers row.
ClaimsOf(i) == CHOOSE t \in 1..6 : (t * (t - 1)) \div 2 < i /\ i <= (t * (t + 1)) \div 2
CompletedOf(i) == i - (ClaimsOf(i) * (ClaimsOf(i) - 1)) \div 2

LargeStore ==
    [providers |-> SetToBag({ProviderRow(i, "Restaurant", "Metro") : i \in 1..21}),
     receivers |-> SetToBag({ReceiverRow(i, "NGO", "Metro") : i \in 1..21}),
     food_listings |->
        SetToBag({FoodRow(i, i, i, "Vegan", "Lunch", "Metro", "2030-01-01") :
                  i \in 1..21}),
     claims |->
        SetToBag(UNION { { ClaimRow(10 * i + k, i, IF k = 1 THEN i ELSE 0,
                                    IF k <= CompletedOf(i) THEN "Completed"
                                    ELSE "Pending",
                                    "2025-01-01 10:00:00") :
                           k \in 1..ClaimsOf(i) } : i \in 1..21 })]

Stores == SmallStores \cup {LargeStore}

\* The values of date('now').
Today == {"2025-06-01", "2030-01-01"}

\* Query 5 alone reads the clock.
Clock(n) == IF n = 5 THEN Today ELSE {"2025-06-01"}

\* The stores' answers to the queries of one run_all_queries.
Answers ==
    { [n \in 1..Len(queries) |-> n \notin S] :
        S \in {X \in SUBSET (1..Len(queries)) : Cardinality(X) <= MaxFaults} }

QInit ==
    /\ db \in Stores
    /\ pc = "idle"
    /\ success_count = 0
    /\ called = <<>>
    /\ run = NoRun
    /\ last = NoCall
    /\ all_ok = TRUE
    /\ report = NoReport
    /\ schema = Objects
    /\ dropping = <<>>
    /\ ddl = NoDdl

\* One call of query n.
Query(n) ==
    /\ \E now \in Clock(n) : \E rows \in query_func(n, db, now) :
       \E up \in BOOLEAN :
         LET result == fetch_dataframe(db, rows, up)
         IN  /\ db' = result.db
             /\ report' = [op |-> "query", n |-> n, now |-> now,
                           ok |-> result.ok,
                           rows |-> IF result.ok THEN result.df ELSE <<>>,
                           results |-> {}, failed |-> {}]
    /\ UNCHANGED <<pc, success_count, called, run, last, all_ok>>
    /\ UNCHANGED schema_vars

\* A result each query can return on the store.
Frames ==
    [n \in 1..Len(queries) |->
        CHOOSE rows \in query_func(n, db, "2025-06-01") : TRUE]

\* run_all_queries(): n is the N of "Successful queries: N/15".
RunAllQueries ==
    /\ \E frames \in {Frames} : \E up \in Answers :
         LET r == run_all_queries(db, 1, up, frames)
         IN  /\ db' = r.db
             /\ report' = [op |-> "run_all", n |-> Cardinality(r.results),
                           now |-> "2025-06-01", ok |-> TRUE, rows |-> <<>>, results |-> r.results,
                           failed |-> {queries[i] : i \in {j \in 1..Len(queries) : ~up[j]}}]
    /\ UNCHANGED <<pc, success_count, called, run, last, all_ok>>
    /\ UNCHANGED schema_vars

\* get_quick_insights()
GetQuickInsights ==
    /\ \E frames \in {Frames} : \E up \in [1..3 -> BOOLEAN] :
         /\ db' = get_quick_insights(db, up, frames).db
         /\ report' = [NoReport EXCEPT !.op = "insights", !.ok = TRUE]
    /\ UNCHANGED <<pc, success_count, called, run, last, all_ok>>
    /\ UNCHANGED schema_vars

QNext ==
    \/ \E n \in 1..Len(queries) : Query(n)
    \/ RunAllQueries
    \/ GetQuickInsights

QSpec == QInit /\ [][QNext]_vars

\* ------------------------------------------- claims on the query catalog
\* C11: no call of one of the fifteen queries, of run_all_queries or of
\* get_quick_insights changes the rows of the four tables, so after any
\* sequence of such calls the tables are as they were before. (Every step
\* of QSpec is such a call.)
C11_QueriesReadOnly == [][db' = db]_vars

\* run_all_queries has returned results over a store with rows in all four
\* tables.
C11_Witness ==
    /\ report.op = "run_all" /\ report.results # {}
    /\ \A t \in Tables : RowCount(t) > 0

\* The grouping keys that satisfy the filters of query n on the current
\* store: the values of its GROUP BY columns that occur in its FROM clause
\* and pass its HAVING clause.  Query 5 aggregates the whole table into one
\* row, query 10 adds its TOTAL row, query 15 has its seven metrics.
GroupingKeys(n) ==
    LET P == Rows(db, "providers")
        R == Rows(db, "receivers")
        F == Rows(db, "food_listings")
        C == Rows(db, "claims")
    IN  CASE n = 1 -> {p.city : p \in P} \cup {r.city : r \in R}
          [] n = 2 -> {p.type : p \in P}
          [] n = 3 -> {p.city : p \in P}
          [] n = 4 -> {r.receiver_id : r \in
                         {x \in R : \E c \in C : c.receiver_id = x.receiver_id}}
          [] n = 5 -> {"all"}
          [] n = 6 -> {f.location : f \in F}
          [] n = 7 -> {f.food_type : f \in F}
          [] n = 8 -> {f.food_id : f \in
                         {x \in F : \E c \in C : c.food_id = x.food_id}}
          [] n = 9 -> {p.provider_id : p \in
                         {x \in P : \E f \in F : \E c \in C :
                                     /\ f.provider_id = x.provider_id
                                     /\ c.food_id = f.food_id}}
          [] n = 10 -> {c.status : c \in C} \cup {"TOTAL"}
          [] n = 11 -> {r.type : r \in R}
          [] n = 12 -> {f.meal_type : f \in F}
          [] n = 13 -> {p.provider_id : p \in
                          {x \in P : \E f \in F :
                                      f.provider_id = x.provider_id}}
          [] n = 14 -> {f.location : f \in F}
          [] OTHER -> 1..7

\* The LIMIT of query n: the top-claimers report keeps 20 rows, the
\* successful-providers report 15; no other query has one.
RowLimit(n, k) == IF n = 4 THEN 20 ELSE IF n = 9 THEN 15 ELSE k

\* C12, as claimed: every query returns one row for every grouping key that
\* satisfies its filters, however many such keys there are.
C12_FullResultSets ==
    (report.op = "query" /\ report.ok) =>
        Len(report.rows) = Cardinality(GroupingKeys(report.n))

\* C12, amended: every query returns one row for every grouping key that
\* satisfies its filters, except that query 4 returns at most the first 20
\* and query 9 at most the first 15 rows of their ordering.
C12_FullExceptTopReports ==
    (report.op = "query" /\ report.ok) =>
        LET k == Cardinality(GroupingKeys(report.n))
            m == RowLimit(report.n, k)
        IN  /\ Len(report.rows) = IF k < m THEN k ELSE m
            /\ \A i, j \in 1..Len(report.rows) :
                  i # j => report.rows[i] # report.rows[j]

C12_Witness ==
    /\ report.op = "query" /\ report.ok /\ report.n = 9
    /\ Cardinality(GroupingKeys(9)) > 15
    /\ Len(report.rows) = 15
    /\ \A i \in 1..15 : report.rows[i].successful_claims >= 2

\* The claim-outcome reports and the column that holds a row's grouping key.
KeyColumn(n) ==
    CASE n = 4 -> "receiver_id"
      [] n = 8 -> "food_id"
      [] n = 9 -> "provider_id"
      [] n = 11 -> "receiver_type"
      [] n = 12 -> "meal_type"
      [] OTHER -> "city"

\* Whether the grouping key k of claim-outcome report n has a claim in the
\* current store: a claim of the receiver, on the food item, on a listing of
\* the provider, of a receiver of the type, on a listing of the meal type or
\* of the city.
HasClaims(n, k) ==
    LET R == Rows(db, "receivers")
        F == Rows(db, "food_listings")
        C == Rows(db, "claims")
    IN  CASE n = 4 -> \E c \in C : c.receiver_id = k
          [] n = 8 -> \E c \in C : c.food_id = k
          [] n = 9 -> \E f \in F : \E c \in C :
                         f.provider_id = k /\ c.food_id = f.food_id
          [] n = 11 -> \E r \in R : \E c \in C :
                         r.type = k /\ c.receiver_id = r.receiver_id
          [] n = 12 -> \E f \in F : \E c \in C :
                         f.meal_type = k /\ c.food_id = f.food_id
          [] OTHER -> \E f \in F : \E c \in C :
                         f.location = k /\ c.food_id = f.food_id

ReportKeys == {report.rows[i][KeyColumn(report.n)] : i \in 1..Len(report.rows)}

\* C13, as claimed: no row of queries 4, 8, 9, 11, 12 or 14 belongs to a
\* grouping key that has zero claims.
C13_ZeroClaimKeysExcluded ==
    (report.op = "query" /\ report.ok /\ report.n \in {4, 8, 9, 11, 12, 14}) =>
        \A k \in ReportKeys : HasClaims(report.n, k)

\* C13, amended: no row of queries 4, 8 or 9 belongs to a receiver, food
\* item or provider that has zero claims; queries 11, 12 and 14 return a
\* row for every receiver type, meal type and city of the store, those
\* with zero claims included, and such a row counts zero claims.
C13_ZeroClaimKeysExcludedByHaving ==
    /\ (report.op = "query" /\ report.ok /\ report.n \in {4, 8, 9}) =>
          \A k \in ReportKeys : HasClaims(report.n, k)
    /\ (report.op = "query" /\ report.ok /\ report.n \in {11, 12, 14}) =>
          /\ ReportKeys = GroupingKeys(report.n)
          /\ \A i \in 1..Len(report.rows) :
                report.rows[i].total_claims = 0
                    <=> ~HasClaims(report.n, report.rows[i][KeyColumn(report.n)])

C13_Witness ==
    /\ report.op = "query" /\ report.ok /\ report.n = 4
    /\ Len(report.rows) = 1
    /\ \E r \in Rows(db, "receivers") : ~HasClaims(4, r.receiver_id)

\* The success-rate column of the queries that compute one.
SuccessRateColumn(n) ==
    IF n \in {8, 14} THEN "claim_success_rate" ELSE "success_rate_percentage"

\* C14: in queries 4, 8, 9, 12 and 14 a grouping key with zero claims causes
\* no division error: on a reachable store the query answers, and the row of
\* such a key, if present, has a null success rate (the rows of the keys
\* that have claims hold a rate between 0 and 100).
C14_ZeroClaimsRateIsNull ==
    (report.op = "query" /\ report.ok /\ report.n \in {4, 8, 9, 12, 14}) =>
        \A i \in 1..Len(report.rows) :
            LET row == report.rows[i]
                rate == row[SuccessRateColumn(report.n)]
            IN  IF HasClaims(report.n, row[KeyColumn(report.n)])
                THEN rate # Null /\ The(rate) \in 0..10000
                ELSE rate = Null

C14_Witness ==
    /\ report.op = "query" /\ report.ok /\ report.n = 14
    /\ \E i, j \in 1..Len(report.rows) :
          /\ report.rows[i].total_claims = 0
          /\ report.rows[i].claim_success_rate = Null
          /\ report.rows[j].total_claims > 0
          /\ report.rows[j].claim_success_rate # Null

\* The sum of column col over the first n rows, a NULL counting as nothing.
RECURSIVE ColumnSum(_, _, _)
ColumnSum(rows, col, n) ==
    IF n = 0 THEN 0
    ELSE ColumnSum(rows, col, n - 1)
           + (IF rows[n][col] = Null THEN 0 ELSE The(rows[n][col]))

\* The percentage columns of the distribution reports.
PercentageColumns(n) ==
    CASE n = 2 -> {"percentage_of_total_quantity"}
      [] n = 6 -> {"percentage_of_total_food"}
      [] OTHER -> {"percentage_of_listings", "percentage_of_total_quantity"}

\* A sum of k percentages, each rounded to two decimals, is 100 within
\* rounding when it is no further from 100.00 than k half hundredths.
SumsTo100(rows, col) ==
    LET d == ColumnSum(rows, col, Len(rows)) - 10000
    IN  2 * d <= Len(rows) /\ 0 - 2 * d <= Len(rows)

\* C15: on a store with at least one food listing, each percentage column
\* of queries 2, 6 and 7 sums to 100 within rounding over the rows of the
\* query.
C15_PercentagesSumTo100 ==
    (/\ report.op = "query" /\ report.ok /\ report.n \in {2, 6, 7}
     /\ Rows(db, "food_listings") # {}) =>
        \A col \in PercentageColumns(report.n) : SumsTo100(report.rows, col)

\* The claims of the current store that have the given status.
ClaimsWithStatus(st) == {c \in Rows(db, "claims") : c.status = st}

\* The statuses that have a claim, in the order Completed, Pending,
\* Cancelled.
StatusesPresent ==
    LET Present(st) == ClaimsWithStatus(st) # {}
    IN  SelectSeq(<<"Completed", "Pending", "Cancelled">>, Present)

\* Whether p hundredths is part * 100 / whole rounded to two decimals.
IsRoundedPercent(p, part, whole) ==
    LET d == p * whole - 10000 * part
    IN  2 * d <= whole /\ 0 - 2 * d <= whole

\* C16: query 10 returns one row per status that has a claim, in the order
\* Completed, Pending, Cancelled, each with the number of claims of the
\* status and its percentage of all claims rounded to two decimals, and
\* then the row TOTAL with the number of all claims and 100.0.
C16_StatusDistribution ==
    (report.op = "query" /\ report.ok /\ report.n = 10) =>
        LET k == Len(StatusesPresent)
            all == Cardinality(Rows(db, "claims"))
        IN  /\ Len(report.rows) = k + 1
            /\ \A i \in 1..k :
                  LET row == report.rows[i]
                      count == Cardinality(ClaimsWithStatus(StatusesPresent[i]))
                  IN  /\ row.status = StatusesPresent[i]
                      /\ row.claim_count = count
                      /\ row.percentage # Null
                      /\ IsRoundedPercent(The(row.percentage), count, all)
            /\ report.rows[k + 1].status = "TOTAL"
            /\ report.rows[k + 1].claim_count = all
            /\ report.rows[k + 1].claim_count =
                  ColumnSum([i \in 1..k |-> [c |-> {report.rows[i].claim_count}]],
                            "c", k)
            /\ report.rows[k + 1].percentage = {10000}

\* The scenario claims = [Completed, Completed, Pending].
C16_Witness ==
    /\ report.op = "query" /\ report.ok /\ report.n = 10
    /\ Len(report.rows) = 3
    /\ report.rows[1].status = "Completed" /\ report.rows[1].claim_count = 2
    /\ report.rows[1].percentage = {6667}
    /\ report.rows[2].status = "Pending" /\ report.rows[2].claim_count = 1
    /\ report.rows[2].percentage = {3333}
    /\ report.rows[3].status = "TOTAL" /\ report.rows[3].claim_count = 3
    /\ report.rows[3].percentage = {10000}

\* The listings of the current store that have the given food type.
ListingsOfType(ft) == {f \in Rows(db, "food_listings") : f.food_type = ft}

\* The sum of the quantities of a set of listings.
QuantityOf(F) == SumPairs({<<f.food_id, f.quantity>> : f \in F})

\* Query 7 but for its percentages: one row per food type that has a
\* listing, with the number of listings of the type and the sum of their
\* quantities, ordered by total_quantity descending.
FoodTypeRows(rows) ==
    /\ {rows[i].food_type : i \in 1..Len(rows)}
          = {f.food_type : f \in Rows(db, "food_listings")}
    /\ \A i, j \in 1..Len(rows) :
          /\ i # j => rows[i].food_type # rows[j].food_type
          /\ i < j => The(rows[i].total_quantity) >= The(rows[j].total_quantity)
    /\ \A i \in 1..Len(rows) :
          LET G == ListingsOfType(rows[i].food_type)
          IN  /\ rows[i].number_of_listings = Cardinality(G)
              /\ rows[i].total_quantity = {QuantityOf(G)}
              /\ rows[i].percentage_of_listings # Null
              /\ rows[i].percentage_of_total_quantity # Null
    /\ Cardinality(Rows(db, "food_listings")) = 1 =>
          /\ Len(rows) = 1
          /\ rows[1].percentage_of_listings = {10000}
          /\ rows[1].percentage_of_total_quantity = {10000}

\* C17, as claimed: query 7 returns one row per food type that has a
\* listing, ordered by total_quantity descending, with the count and the
\* sum of the type and percentages equal to count * 100 / total listings
\* and quantity * 100 / total quantity; a single listing gives 100.0.
C17_FoodTypesExactPercentages ==
    (report.op = "query" /\ report.ok /\ report.n = 7) =>
        LET F == Rows(db, "food_listings")
        IN  /\ FoodTypeRows(report.rows)
            /\ \A i \in 1..Len(report.rows) :
                  LET row == report.rows[i]
                  IN  /\ The(row.percentage_of_listings) * Cardinality(F)
                            = 10000 * row.number_of_listings
                      /\ The(row.percentage_of_total_quantity) * QuantityOf(F)
                            = 10000 * The(row.total_quantity)

\* C17, amended: the same, with each percentage rounded to two decimals.
C17_FoodTypesRoundedPercentages ==
    (report.op = "query" /\ report.ok /\ report.n = 7) =>
        LET F == Rows(db, "food_listings")
        IN  /\ FoodTypeRows(report.rows)
            /\ \A i \in 1..Len(report.rows) :
                  LET row == report.rows[i]
                  IN  /\ IsRoundedPercent(The(row.percentage_of_listings),
                                          row.number_of_listings, Cardinality(F))
                      /\ IsRoundedPercent(The(row.percentage_of_total_quantity),
                                          The(row.total_quantity), QuantityOf(F))

\* Two food types, the one with the larger total first (58.33 % of 12).
C17_Witness ==
    /\ report.op = "query" /\ report.ok /\ report.n = 7
    /\ Len(report.rows) = 2
    /\ report.rows[1].number_of_listings = 2
    /\ report.rows[1].total_quantity = {7}
    /\ report.rows[1].percentage_of_listings = {6667}
    /\ report.rows[1].percentage_of_total_quantity = {5833}
    /\ report.rows[2].total_quantity = {5}

\* C18: the ordered sequence of rows a query returns is determined by the
\* store: the rows reported are the only sequence the query's SQL admits on
\* the current store (at the date of the call), ties under ORDER BY
\* included.
C18_ReportDeterministic ==
    (report.op = "query" /\ report.ok) =>
        \E now \in Clock(report.n) :
            query_func(report.n, db, now) = {report.rows}

\* The names of the queries of the given numbers.
Named(N) == {queries[i] : i \in N}

\* The queries that did not fail in the bulk run reported.
NotFailed == {i \in 1..Len(queries) : queries[i] \notin report.failed}

\* C19, as claimed: run_all_queries leaves out of its result set exactly
\* the queries that failed, whatever rows the others return, and the N of
\* "N/15" is the number of queries that did not fail.
C19_ExactlyFailedLeftOut ==
    report.op = "run_all" =>
        /\ report.results = Named(NotFailed)
        /\ report.n = Cardinality(NotFailed)

\* C19, amended: run_all_queries leaves out of its result set exactly the
\* queries that failed and the queries that returned no rows, and the N of
\* "N/15" is the number of queries that returned at least one row.
C19_FailedAndEmptyLeftOut ==
    report.op = "run_all" =>
        LET answered == {i \in NotFailed : GroupingKeys(i) # {}}
        IN  /\ report.results = Named(answered)
            /\ report.n = Cardinality(answered)

C19_Witness ==
    /\ report.op = "run_all"
    /\ report.failed = {queries[7]}
    /\ GroupingKeys(4) = {} /\ queries[4] \notin report.results
    /\ GroupingKeys(6) # {} /\ queries[6] \in report.results
    /\ report.n < 14

\* --------------------------------------- the pipeline on a failing store

MaxBatch == 1
MaxDown == 1

\* What the store may answer to the DELETE and to the INSERT batch of a
\* loader: get_connection or the statement fails, or it succeeds; at most
\* MaxDown accesses of a call fail.
Nets ==
    {net \in [delete : BOOLEAN, insert : BOOLEAN] :
       Cardinality({a \in {"delete", "insert"} : ~net[a]}) <= MaxDown}

\* What the store may answer to the seven SELECTs of the integrity pass.
Ups ==
    {up \in [1..7 -> BOOLEAN] :
       Cardinality({i \in 1..7 : ~up[i]}) <= MaxDown}

\* The files of at most MaxBatch records.
ShortSources ==
    [t \in Tables |-> {src \in Sources(t) : Len(src.rows) <= MaxBatch}]

FNext ==
    \/ \E t \in Tables : LoadUnder(t, ShortSources, Nets)
    \/ LoadAllDataStart
    \/ LoadAllDataStepUnder(ShortSources, Nets)
    \/ LoadAllDataFinish
    \/ VerifyUnder(Ups)

\* The loaders, load_all_data and the integrity pass on a store of which
\* any access may fail.
FSpec == Init /\ [][FNext]_vars

\* C20: whatever store access fails, no call of a loader, of load_all_data
\* or of verify_data_integrity ends in an exception: each returns True or
\* False.
C20_NoExceptionEscapes ==
    last.op \in {"load", "verify"} => ~last.raised

\* The listings of the provider with the given id in the current store.
ListingsOfProvider(id) ==
    {f \in Rows(db, "food_listings") : f.provider_id = id}

\* C27: in query 13 the row of a provider shows the number of the
\* provider's listings as total_food_items and the sum of their quantities
\* as total_quantity_donated, also when a listing has two or more claims.
C27_DonationsCountListingsOnce ==
    (report.op = "query" /\ report.ok /\ report.n = 13) =>
        \A i \in 1..Len(report.rows) :
            LET row == report.rows[i]
                G == ListingsOfProvider(row.provider_id)
            IN  /\ row.total_food_items = Cardinality(G)
                /\ row.total_quantity_donated = {QuantityOf(G)}

\* The row of query 15 with the given metric_name.
MetricRow(name) ==
    report.rows[CHOOSE i \in 1..Len(report.rows) :
                    report.rows[i].metric_name = name]

\* C28: in query 15 the percentage of 'Food Successfully Distributed' is
\* at most 100 and its value at most that of 'Total Quantity Available',
\* and the percentage of 'Successful Claims' is at most 100.
C28_MetricsWithinTotals ==
    (report.op = "query" /\ report.ok /\ report.n = 15) =>
        LET distributed == MetricRow("Food Successfully Distributed")
            available == MetricRow("Total Quantity Available")
            successful == MetricRow("Successful Claims")
        IN  /\ distributed.percentage # Null =>
                  The(distributed.percentage) <= 10000
            /\ (distributed.metric_value # Null /\ available.metric_value # Null)
                  => The(distributed.metric_value) <= The(available.metric_value)
            /\ successful.percentage # Null =>
                  The(successful.percentage) <= 10000

\* C29: in query 5, whatever the current date, items_not_expired +
\* items_expired = total_food_items, the number of listings, and every
\* listing is in exactly one bucket: expired when its expiry_date <= now,
\* not expired when its expiry_date > now.
C29_ExpiryBucketsPartition ==
    (report.op = "query" /\ report.ok /\ report.n = 5) =>
        LET row == report.rows[1]
            F == Rows(db, "food_listings")
            old == {f \in F : DateOrd(f.expiry_date) <= DateOrd(report.now)}
        IN  /\ Len(report.rows) = 1
            /\ row.total_food_items = Cardinality(F)
            /\ row.items_not_expired + row.items_expired = row.total_food_items
            /\ row.items_expired = Cardinality(old)
            /\ row.items_not_expired = Cardinality(F \ old)

\* A listing that expires today and one that expires later.
C29_Witness ==
    /\ report.op = "query" /\ report.ok /\ report.n = 5
    /\ \E f, g \in Rows(db, "food_listings") :
          /\ f.expiry_date = report.now
          /\ DateOrd(g.expiry_date) > DateOrd(report.now)
    /\ report.rows[1].items_expired = 1
    /\ report.rows[1].items_not_expired = 1

\* C24: when the engine rejects a record of the batch (duplicate primary
\* key, CHECK violation), the load returns False and the table is empty:
\* none of the batch's records is in it, and the rows it held before the
\* load are lost with the committed DELETE.
C24_BatchAllOrNothing ==
    (last.op = "load" /\ last.rejected) =>
        /\ ~last.ret
        /\ RowCount(last.table) = 0

\* A batch of a good and a bad record, on a table that held a row.
C24_Witness ==
    /\ last.op = "load" /\ last.rejected
    /\ last.n_recs = 2 /\ last.n_valid = 1
    /\ last.dropped
    /\ RowCount(last.table) = 0

\* The loader that a run is about to call touches no table but its own,
\* whatever its file holds.
OwnTableOnly ==
    pc \in Tables =>
        \A src \in Sources(pc) : \A u \in Tables \ {pc} :
            load_table(db, pc, src, StoreUp).db[u] = db[u]

\* C25: a load_all_data that found its four files calls the four loaders
\* in order whether or not an earlier one failed, each loader leaving the
\* other tables as they are, and returns True exactly when the four loads
\* succeeded.
C25_PerTableIngestion ==
    /\ OwnTableOnly
    /\ (run.started /\ run.missing = {}) =>
          /\ IsPrefix(called, LoadOrder)
          /\ run.loaded \subseteq Range(called)
          /\ run.done => /\ called = LoadOrder
                          /\ run.ret <=> run.loaded = Tables

\* A run has ended with False after the providers' load failed and left
\* its table empty, and the food listings loaded after it are in the store.
C25_Witness ==
    /\ run.done /\ run.missing = {} /\ ~run.ret
    /\ "providers" \notin run.loaded /\ RowCount("providers") = 0
    /\ "food_listings" \in run.loaded /\ RowCount("food_listings") > 0

\* C26: a loader whose source file is missing or cannot be parsed returns
\* False and deletes nothing: the step that ends with such a call leaves its
\* own table and the three other tables with the rows they had.
C26_NoFileNoDelete ==
    [][(last'.op = "load" /\ ~last'.read) => (~last'.ret /\ db' = db)]_vars

\* A loader found no readable file while its table held rows, and the rows
\* are still there.
C26_Witness ==
    /\ last.op = "load" /\ ~last.read /\ ~last.ret
    /\ last.kept
    /\ RowCount(last.table) > 0
    /\ \E u \in Tables \ {last.table} : RowCount(u) > 0

\* ------------------------------- the schema and the DatabaseManager at work
\* A store with one row in each table, and a database file just created.
SeedRow(t) ==
    CASE t = "providers" -> ProviderRow(1, "Restaurant", "Metro")
      [] t = "receivers" -> ReceiverRow(1, "NGO", "Metro")
      [] t = "food_listings" ->
           FoodRow(1, 5, 1, "Vegan", "Lunch", "Metro", "2030-01-01")
      [] t = "claims" -> ClaimRow(1, 1, 1, "Completed", "2025-01-01 10:00:00")

SeedStore == [t \in Tables |-> SetToBag({SeedRow(t)})]

EmptyStore == [t \in Tables |-> EmptyBag]

\* The batches handed to execute_many: one row, and the same row twice.
Batches(t) == {<<SeedRow(t)>>, <<SeedRow(t), SeedRow(t)>>}

\* The statements handed to execute_query directly.
Statements ==
    { [kind |-> k, name |-> t] :
        k \in {"DELETE FROM", "SELECT COUNT(*) FROM"}, t \in Tables }

\* The store's answers to the fourteen statements of create_all_tables.
CreateUps ==
    { [i \in 1..(Len(LoadOrder) + Len(indexes)) |-> i \notin S] :
        S \in {X \in SUBSET (1..(Len(LoadOrder) + Len(indexes))) :
                 Cardinality(X) <= MaxDown} }

CreateAllUp == [i \in 1..(Len(LoadOrder) + Len(indexes)) |-> TRUE]

DInit ==
    /\ \/ db = EmptyStore /\ schema = {}
       \/ db = SeedStore /\ schema = Objects
    /\ pc = "idle"
    /\ success_count = 0
    /\ called = <<>>
    /\ run = NoRun
    /\ last = NoCall
    /\ all_ok = TRUE
    /\ report = NoReport
    /\ dropping = <<>>
    /\ ddl = NoDdl

\* What is remembered of a finished call op that the store answered as up
\* tells and that returned ret, leaving the store as r tells.
Called(op, up, ret, r) ==
    [op |-> op, reached |-> up, ret |-> ret, raised |-> r.raised,
     kept |-> r.db = db /\ r.schema = schema, rows_kept |-> r.db = db,
     full |-> Tables \subseteq schema, complete |-> Objects \subseteq schema,
     failed |-> ~up, dropped |-> (schema \ r.schema) \cap Tables]

\* execute_query(query) on one of Statements.
ExecuteQuery ==
    /\ dropping = <<>>
    /\ \E q \in Statements : \E up \in BOOLEAN :
         LET r == execute_query(schema, db, q, up)
         IN  /\ db' = r.db
             /\ schema' = r.schema
             /\ ddl' = Called("execute_query", up, r.ret, r)
    /\ UNCHANGED <<pc, success_count, called, run, last, all_ok, report,
                   dropping>>

\* execute_many("INSERT INTO <t> ...", data): the statement fails on a
\* table that is not there.
ExecuteMany ==
    /\ dropping = <<>>
    /\ \E t \in Tables : \E data \in Batches(t) : \E up \in BOOLEAN :
         LET r == execute_many(db, t, data, up /\ t \in schema)
         IN  /\ db' = r.db
             /\ ddl' = Called("execute_many", up,
                              IF r.ret THEN "True" ELSE "False",
                              [raised |-> FALSE, db |-> r.db,
                               schema |-> schema])
    /\ UNCHANGED <<pc, success_count, called, run, last, all_ok, report,
                   schema, dropping>>

\* fetch_dataframe("SELECT * FROM <t>").
FetchDataframe ==
    /\ dropping = <<>>
    /\ \E t \in Tables : \E up \in BOOLEAN :
         LET r == fetch_dataframe(db, Rows(db, t), up /\ t \in schema)
         IN  /\ db' = r.db
             /\ ddl' = Called("fetch_dataframe", up,
                              IF r.ok THEN "frame" ELSE "None",
                              [raised |-> FALSE, db |-> r.db,
                               schema |-> schema])
    /\ UNCHANGED <<pc, success_count, called, run, last, all_ok, report,
                   schema, dropping>>

\* table_exists(t)
TableExists ==
    /\ dropping = <<>>
    /\ \E t \in Tables : \E up \in BOOLEAN :
         LET r == table_exists(schema, db, t, up)
         IN  /\ db' = r.db
             /\ schema' = r.schema
             /\ ddl' = Called("table_exists", up, r.ret, r)
    /\ UNCHANGED <<pc, success_count, called, run, last, all_ok, report,
                   dropping>>

\* get_table_info(t)
GetTableInfo ==
    /\ dropping = <<>>
    /\ \E t \in Tables : \E up \in BOOLEAN :
         LET r == get_table_info(schema, db, t, up)
         IN  /\ db' = r.db
             /\ schema' = r.schema
             /\ ddl' = Called("get_table_info", up, r.ret, r)
    /\ UNCHANGED <<pc, success_count, called, run, last, all_ok, report,
                   dropping>>

\* get_all_tables()
GetAllTables ==
    /\ dropping = <<>>
    /\ \E up \in BOOLEAN :
         LET r == get_all_tables(schema, db, up)
         IN  /\ db' = r.db
             /\ schema' = r.schema
             /\ ddl' = Called("get_all_tables", up, r.ret, r)
    /\ UNCHANGED <<pc, success_count, called, run, last, all_ok, report,
                   dropping>>

\* drop_table(t)
DropTable ==
    /\ dropping = <<>>
    /\ \E t \in Tables : \E up \in BOOLEAN :
         LET r == drop_table(schema, db, t, up)
         IN  /\ db' = r.db
             /\ schema' = r.schema
             /\ ddl' = Called("drop_table", up, r.ret, r)
    /\ UNCHANGED <<pc, success_count, called, run, last, all_ok, report,
                   dropping>>

\* get_row_count(t): the count is 0 as well when the SELECT failed.
GetRowCount ==
    /\ dropping = <<>>
    /\ \E t \in Tables : \E up \in BOOLEAN :
         LET n == get_row_count(db, t, up /\ t \in schema)
         IN  ddl' = Called("get_row_count", up,
                           IF n = 0 THEN "0" ELSE "count",
                           [raised |-> FALSE, db |-> db, schema |-> schema])
    /\ UNCHANGED <<db, pc, success_count, called, run, last, all_ok, report,
                   schema, dropping>>

\* The operations of the DatabaseManager, and what each returns when it
\* has nothing to return.
Absent ==
    [execute_query |-> "None", execute_many |-> "False",
     fetch_dataframe |-> "None", table_exists |-> "False",
     get_table_info |-> "None", get_all_tables |-> "[]",
     drop_table |-> "None", get_row_count |-> "0"]

\* create_all_tables()
CreateAllTables ==
    /\ dropping = <<>>
    /\ \E up \in CreateUps :
         LET r == create_all_tables(schema, db, up)
         IN  /\ db' = r.db
             /\ schema' = r.schema
             /\ ddl' = [Called("create_all_tables", up = CreateAllUp,
                               r.ret, r)
                          EXCEPT !.failed = \E i \in 1..Len(LoadOrder) :
                                               ~up[i]]
    /\ UNCHANGED <<pc, success_count, called, run, last, all_ok, report,
                   dropping>>

\* drop_all_tables() up to its loop.
DropAllTablesStart ==
    /\ dropping = <<>>
    /\ dropping' = tables
    /\ ddl' = [NoDdl EXCEPT !.op = "drop_all_tables",
                            !.full = Tables \subseteq schema,
                            !.complete = Objects \subseteq schema]
    /\ UNCHANGED <<db, pc, success_count, called, run, last, all_ok, report,
                   schema>>

\* One "self.db.drop_table(table)" of the loop of drop_all_tables; the
\* result is not looked at.
DropAllTablesStep ==
    /\ dropping # <<>>
    /\ \E up \in BOOLEAN :
         LET r == drop_table(schema, db, Head(dropping), up)
         IN  /\ db' = r.db
             /\ schema' = r.schema
             /\ dropping' = IF r.raised THEN <<>> ELSE Tail(dropping)
             /\ ddl' = [ddl EXCEPT
                          !.reached = @ /\ up,
                          !.raised = r.raised,
                          !.kept = @ /\ r.db = db /\ r.schema = schema,
                          !.rows_kept = @ /\ r.db = db,
                          !.failed = @ \/ ~up,
                          !.dropped = @ \cup ((schema \ r.schema) \cap Tables)]
    /\ UNCHANGED <<pc, success_count, called, run, last, all_ok, report>>

DNext ==
    \/ ExecuteQuery
    \/ ExecuteMany
    \/ FetchDataframe
    \/ TableExists
    \/ GetTableInfo
    \/ GetAllTables
    \/ DropTable
    \/ GetRowCount
    \/ CreateAllTables
    \/ DropAllTablesStart
    \/ DropAllTablesStep

\* The DatabaseManager and the TableCreator on a store of which any access
\* may fail.
DSpec == DInit /\ [][DNext]_vars

\* A table that is not in the store has no rows.
SchemaOK == \A t \in Tables \ schema : db[t] = EmptyBag

\* C21: a call of a DatabaseManager operation that finds the store
\* unreachable does not raise, returns None (execute_query, fetch_dataframe,
\* get_table_info, drop_table), False (execute_many, table_exists), an empty
\* list (get_all_tables) or 0 (get_row_count), and leaves the tables and
\* their rows as they were.
C21_UnreachableStoreAborts ==
    (ddl.op \in DOMAIN Absent /\ ~ddl.reached) =>
        /\ ~ddl.raised
        /\ ddl.ret = Absent[ddl.op]
        /\ ddl.kept

\* execute_query found the store unreachable while every table held a row.
C21_Witness ==
    /\ ddl.op = "execute_query" /\ ~ddl.reached /\ ddl.ret = "None"
    /\ \A t \in Tables : RowCount(t) > 0

\* C22: create_all_tables on a store that has the four tables leaves the
\* four tables and every row of them as they were, and leaves the whole
\* schema as it was when the indexes are there too; and, the store
\* answering, calling it on what one call leaves changes nothing more.
C22_CreateIsIdempotent ==
    /\ (ddl.op = "create_all_tables" /\ ddl.full) =>
          /\ ddl.rows_kept
          /\ ddl.dropped = {}
          /\ Tables \subseteq schema
          /\ ddl.complete => ddl.kept
    /\ dropping = <<>> =>
          LET once == create_all_tables(schema, db, CreateAllUp)
              twice == create_all_tables(once.schema, once.db, CreateAllUp)
          IN  twice = once

\* create_all_tables has returned on a store that had the four tables and
\* the ten indexes, each table holding a row.
C22_Witness ==
    /\ ddl.op = "create_all_tables" /\ ddl.complete /\ ddl.ret = "True"
    /\ ddl.kept
    /\ \A t \in Tables : RowCount(t) > 0

\* C23 as stated: while drop_all_tables runs and when it has finished, no
\* table is in the store of which a FOREIGN KEY names a table that the
\* call has dropped, and when the call has finished and no store access of
\* it failed none of the four tables is in the store.
C23_DropRespectsReferences ==
    ddl.op = "drop_all_tables" =>
        /\ \A t \in Tables \cap schema : References(t) \cap ddl.dropped = {}
        /\ (dropping = <<>> /\ ~ddl.failed) => Tables \cap schema = {}

\* C30 as stated: when create_all_tables has returned True the four tables
\* are in the store, also when a store access failed during one of the
\* four CREATE TABLE statements.
C30_TrueMeansSchemaInPlace ==
    (ddl.op = "create_all_tables" /\ ddl.ret = "True") =>
        Tables \subseteq schema

====
